---- MODULE Spec2Model ----
(***************************************************************************)
(* ipcanvas: the IPv6 prefix matcher (ipcanvas-ping-common), the sans-I/O  *)
(* PingServer (ipcanvas-service/src/ping/server.rs) and the Canvas with    *)
(* its differ (ipcanvas-service/src/canvas).                               *)
(*                                                                         *)
(* The specifications share the variables below; each one drives one       *)
(* component and leaves the others in their constructed state:             *)
(*   SpecPrefix  - Ipv6Prefix::matches on drawn (prefix, address) pairs    *)
(*   SpecServer  - PingServer: ingest / progress / egress / ready_events   *)
(*   SpecCanvas  - Canvas: set_pixel / get_pixel / pixels / clone / diff   *)
(*   SpecService - canvas_task and ws_handler_task with their channels     *)
(*   SpecNewClientClosed - the same when the new-client channel may close  *)
(*   SpecCanvasTask - the same while no websocket client has connected     *)
(*   SpecAnyEvent - canvas_task fed every variant of Event                 *)
(*   SpecShutdown - main's accept loop, the interrupt and the way out      *)
(*   SpecNew     - PingServer::new on drawn capacities                     *)
(*   SpecScrambled - PingServer on records that differ in unread bytes     *)
(*   SpecClassifier - the XDP program ipcanvas_ping and its loader         *)
(*   SpecLoader  - the same from the parsing of the --prefix argument on   *)
(*   SpecPump    - handle_ping_connection, the byte pump of a connection   *)
(*   SpecServerFair, SpecServiceFair, SpecCanvasTaskFair - SpecServer,     *)
(*                 SpecService and SpecCanvasTask with fairness            *)
(***************************************************************************)
EXTENDS Integers, Sequences, FiniteSets, Bags, TLC

VARIABLES
    \* --- prefix matcher harness
    prefix,         \* Ipv6Prefix { address: [u8; 16], prefix_len: u8 }
    addr,           \* the Ipv6Addr handed to matches(), as its 16 octets
    pfx_pc,         \* "ready" before the call of matches(), "done" after it
    matched,        \* the value matches() returned
    \* --- PingServer
    server,         \* PingServer { ingest: Vec<u8>, egress: Vec<Event> }
    wire,           \* bytes the caller still holds and has not handed to ingest()
    accepted,       \* every byte ingest() has copied so far, in order
    emitted,        \* every event egress() has returned so far, in order
    srv_call,       \* the most recent PingServer call: operation, arguments, result
    new_args,       \* PingServer::new: the capacities passed and the build profile
    new_ret,        \* PingServer::new: None before the call, then what it gave
    \* --- Canvas
    canvas,         \* Canvas { width, height, data }
    prev_canvas,    \* a clone of the canvas taken earlier (the differ's reference)
    last_write,     \* per cell: the colour of the last successful set_pixel, or NoWrite
    cv_call,        \* the most recent Canvas call: operation, arguments, result
    writes,         \* number of set_pixel calls made so far
    \* --- canvas task and websocket hub
    event_channel,  \* events buffered in the event channel, oldest first
    event_closed,   \* TRUE once every sender of the event channel is dropped
    change_flag,    \* canvas_task: an event was handled since the last published diff
    ct_pc,          \* canvas_task: "select", "send", "final", "final_send", "done",
                    \* "panicked", "cancelled"
    ct_diff,        \* canvas_task: the diff it is handing to diff_sender.send
    ct_last,        \* canvas_task: the last event it handled and what set_pixel returned,
                    \* or the last tick it took and whether the diff was empty
    replica,        \* an all-white canvas with every published diff applied, in order
    diff_channel,   \* diffs buffered in the diff channel, oldest first
    diff_sender_open,   \* FALSE once canvas_task has returned
    diff_receiver_open, \* FALSE once ws_handler_task has returned
    hub_pc,         \* ws_handler_task: "select", "broadcast", "done", "cancelled"
    clients,        \* ws_handler_task: the subscriber list, in order of arrival
    pending,        \* ids of the subscribers whose write of the current diff is in flight
    got,            \* ids of the subscribers whose write of the current diff returned Ok
    failed,         \* ids of the subscribers one of whose writes returned an error
    next_id,        \* id the next subscriber gets
    frames_sent,    \* every (diff, payload) the hub has built a frame for
    newclient_closed,   \* TRUE once every sender of the new-client channel is dropped
    \* --- main of ipcanvas-service
    main_pc,        \* main: "select", "broke", "returned", "exited"
    conns,          \* number of live handle_ping_connection tasks (each holds a sender)
    \* --- XDP classifier and loader
    loader_pc,      \* loader main: "parse", "failed", "start", "loaded", "attached",
                    \* "running", "exited"
    opt_text,       \* the --prefix argument, as its characters
    opt_prefix,     \* the Ipv6Prefix parsed from it
    PREFIX,         \* the single entry of the PREFIX array map, [u8; 17]
    prefix_sets,    \* number of prefix.set calls the loader has made
    PING,           \* records in the PING ring buffer, oldest first
    xdp_call,       \* the most recent run of ipcanvas_ping: frame, cell read, verdict
    \* --- byte pump of one PingRecord connection
    pump_pc,        \* handle_ping_connection: "egress", "progress", "read",
                    \* "block_read", "ingest", "done"
    read_buf,       \* read_buf[..read_len]
    should_block_read,   \* progress() returned IngestEmpty in this iteration
    event_receiver_open, \* FALSE once the receiver of the event channel is dropped
    pump_seen,      \* which of IngestFull / EgressFull / Eof (a read of 0 bytes) the
                    \* pump has met so far
    arrived         \* every byte the reads of the socket have returned, in order

pfxVars == <<prefix, addr, pfx_pc, matched>>
srvVars == <<server, wire, accepted, emitted, srv_call>>
newVars == <<new_args, new_ret>>
cvVars  == <<canvas, prev_canvas, last_write, cv_call, writes>>
svcVars == <<event_channel, event_closed, change_flag, ct_pc, ct_diff, ct_last, replica,
             diff_channel, diff_sender_open, diff_receiver_open,
             hub_pc, clients, pending, got, failed, next_id, frames_sent,
             newclient_closed>>
mainVars == <<main_pc, conns>>
xdpVars == <<loader_pc, opt_text, opt_prefix, PREFIX, prefix_sets, PING, xdp_call>>
pumpVars == <<pump_pc, read_buf, should_block_read, event_receiver_open, pump_seen,
              arrived>>
vars    == <<pfxVars, srvVars, newVars, cvVars, svcVars, mainVars, xdpVars, pumpVars>>

\* what a step of one component leaves alone
notPfx == <<srvVars, newVars, cvVars, svcVars, mainVars, xdpVars, pumpVars>>
notSrv == <<pfxVars, newVars, cvVars, svcVars, mainVars, xdpVars, pumpVars>>
notNew == <<pfxVars, srvVars, cvVars, svcVars, mainVars, xdpVars, pumpVars>>
notCv  == <<pfxVars, srvVars, newVars, svcVars, mainVars, xdpVars, pumpVars>>
notMain == <<pfxVars, srvVars, newVars, last_write, cv_call, writes, xdpVars, pumpVars>>
notSvc == <<notMain, mainVars>>
notXdp == <<pfxVars, srvVars, newVars, cvVars, svcVars, mainVars, pumpVars>>
notPump == <<pfxVars, newVars, cvVars, mainVars, xdpVars,
             event_closed, change_flag, ct_pc, ct_diff, ct_last, replica,
             diff_channel, diff_sender_open, diff_receiver_open,
             hub_pc, clients, pending, got, failed, next_id, frames_sent,
             newclient_closed>>

Min(a, b) == IF a < b THEN a ELSE b

\* Option<T> as a sequence
None == <<>>
Some(v) == <<v>>

RECURSIVE Pow2(_)
Pow2(n) == IF n = 0 THEN 1 ELSE 2 * Pow2(n - 1)

(***************************************************************************)
(* u8 arithmetic                                                           *)
(***************************************************************************)
U8 == 256

\* a & b on w-bit operands
RECURSIVE BitAnd(_, _, _)
BitAnd(a, b, w) ==
    IF w = 0 THEN 0
    ELSE (a % 2) * (b % 2) + 2 * BitAnd(a \div 2, b \div 2, w - 1)

\* (v << n) truncated to u8
Shl8(v, n) == (v * Pow2(n)) % U8

(***************************************************************************)
(* Ipv6Prefix::matches  (prefix.rs:75-102)                                 *)
(* Octets are 1-indexed here: octet k of the source is p.address[k + 1].   *)
(***************************************************************************)
ADDR_LEN == 16

full_bytes(p) == (p.prefix_len \div 8) % U8

remaining_bits(p) == (p.prefix_len - ((full_bytes(p) * 8) % U8)) % U8

\* the `for k in 0..16` loop, from step k on: FALSE at the first octet that is
\* below full_bytes and differs
RECURSIVE check_full_bytes(_, _, _)
check_full_bytes(p, a, k) ==
    IF k = ADDR_LEN THEN TRUE
    ELSE IF ~(full_bytes(p) <= k \/ a[k + 1] = p.address[k + 1]) THEN FALSE
    ELSE check_full_bytes(p, a, k + 1)

\* the trailing-bits step
remaining_match(p, a) ==
    IF remaining_bits(p) > 0 /\ full_bytes(p) < 16
    THEN LET mask == Shl8(255, 8 - remaining_bits(p))
             masked_addr_byte   == BitAnd(p.address[full_bytes(p) + 1], mask, 8)
             masked_prefix_byte == BitAnd(a[full_bytes(p) + 1], mask, 8)
         IN  masked_addr_byte = masked_prefix_byte
    ELSE TRUE

\* mutant: the per-octet guard written `full_bytes < k`, which also compares the
\* whole octet that holds the trailing bits
matches_offbyone(p, a) ==
    /\ \A k \in 0..(ADDR_LEN - 1) :
            full_bytes(p) < k \/ a[k + 1] = p.address[k + 1]
    /\ remaining_match(p, a)

matches(p, a) ==
    IF ~check_full_bytes(p, a, 0) THEN FALSE
    ELSE remaining_match(p, a)

(***************************************************************************)
(* Inputs of the prefix harness                                            *)
(***************************************************************************)
\* 2001:db8::4320 (prefix.rs:130) and an address that differs from it in
\* several octets
Addr4320 == <<32, 1, 13, 184, 0, 0, 0, 0, 0, 0, 0, 0, 0, 0, 67, 32>>
AddrFF   == <<255, 255, 255, 255, 255, 255, 255, 255,
              255, 255, 255, 255, 255, 255, 255, 255>>
BaseAddrs == {Addr4320, AddrFF}

\* longest run of consecutive flipped bits between a base address and a drawn one
MaxRun == 2

\* bit i of a 16-octet address, bit 0 being the most significant bit of octet 0
Bit(a, i) == (a[(i \div 8) + 1] \div Pow2(7 - (i % 8))) % 2

FlipBit(a, i) ==
    LET k == (i \div 8) + 1
        m == Pow2(7 - (i % 8))
    IN  [a EXCEPT ![k] = IF Bit(a, i) = 1 THEN @ - m ELSE @ + m]

RECURSIVE FlipRun(_, _, _)
FlipRun(a, start, len) ==
    IF len = 0 THEN a ELSE FlipRun(FlipBit(a, start), start + 1, len - 1)

DrawnAddrs ==
    { FlipRun(b, s, l) : <<b, s, l>> \in
        { t \in BaseAddrs \X (0..127) \X (0..MaxRun) : t[2] + t[3] <= 128 } }

PrefixIdle ==
    /\ prefix = [address |-> Addr4320, prefix_len |-> 0]
    /\ addr = Addr4320
    /\ pfx_pc = "idle"
    /\ matched = FALSE

InitPrefixInputs ==
    /\ prefix \in [address : BaseAddrs, prefix_len : 0..128]
    /\ addr \in DrawnAddrs
    /\ pfx_pc = "ready"
    /\ matched = FALSE

Matches ==
    /\ pfx_pc = "ready"
    /\ matched' = matches(prefix, addr)
    /\ pfx_pc' = "done"
    /\ UNCHANGED <<prefix, addr>>

(***************************************************************************)
(* PingEvent  (ipcanvas-ping-common/src/events.rs)                         *)
(***************************************************************************)
\* size_of::<PingEvent>(), the record length progress() peels (server.rs:112)
PING_EVENT_SIZE == 32

\* PingEvent::from_bytes: the first 16 bytes are the source address, the
\* last 16 the destination address
from_bytes(bytes) ==
    [source_address      |-> SubSeq(bytes, 1, 16),
     destination_address |-> SubSeq(bytes, 17, 32)]

\* u16::from_be_bytes
from_be_bytes(b) == b[1] * 256 + b[2]

(***************************************************************************)
(* PingServer  (ipcanvas-service/src/ping/server.rs)                       *)
(* Slices are 1-indexed: destination_address[6..8] of the source is        *)
(* SubSeq(destination_address, 7, 8).                                      *)
(***************************************************************************)
\* the capacities handed to PingServer::new (ingest_capacity > 32,
\* egress_capacity > 0)
IngestCapacity == 70
EgressCapacity == 2

\* ingest_capacity is the capacity of the ingest Vec; the egress Vec has
\* capacity EgressCapacity in every server of the model
PingServer_new ==
    [ingest |-> <<>>, egress |-> <<>>, ingest_capacity |-> IngestCapacity]

\* the ingest capacity of PingServer::default(), which the byte pump uses:
\* large enough for one more record than the egress buffer holds
DefaultIngestCapacity == 96

PingServer_default ==
    [ingest |-> <<>>, egress |-> <<>>, ingest_capacity |-> DefaultIngestCapacity]

\* mutant: the colour read from the source address, blue first
handle_ping_event_from_source(ping_event) ==
    << [kind  |-> "PlacePixel",
        x     |-> from_be_bytes(SubSeq(ping_event.destination_address, 7, 8)),
        y     |-> from_be_bytes(SubSeq(ping_event.destination_address, 9, 10)),
        color |-> [r |-> ping_event.source_address[16],
                   g |-> ping_event.source_address[14],
                   b |-> ping_event.source_address[12]]] >>

\* PingServer::handle_ping_event: the Vec of events of one PingEvent
handle_ping_event(ping_event) ==
    << [kind  |-> "PlacePixel",
        x     |-> from_be_bytes(SubSeq(ping_event.destination_address, 7, 8)),
        y     |-> from_be_bytes(SubSeq(ping_event.destination_address, 9, 10)),
        color |-> [r |-> ping_event.destination_address[12],
                   g |-> ping_event.destination_address[14],
                   b |-> ping_event.destination_address[16]]] >>

\* mutant: the whole slice copied, whatever the spare capacity
ingest_to_read_unbounded(self, data) == Len(data)

\* mutant: the buffer takes less than one record
ingest_to_read_under_a_record(self, data) ==
    LET available_space == IF Len(self.ingest) < PING_EVENT_SIZE - 1
                           THEN PING_EVENT_SIZE - 1 - Len(self.ingest) ELSE 0
    IN  Min(available_space, Len(data))

\* ingest(): the number of bytes it copies
ingest_to_read(self, data) ==
    LET available_space == self.ingest_capacity - Len(self.ingest)
    IN  Min(available_space, Len(data))

\* PingServer::ingest
ingest(self, data) ==
    LET to_read == ingest_to_read(self, data)
    IN  [self |-> [self EXCEPT !.ingest = @ \o SubSeq(data, 1, to_read)],
         ret  |-> IF to_read < Len(data) THEN "IngestFull" ELSE "Ok",
         read |-> to_read]

\* mutant: the room test made before the event is pushed lets egress grow one
\* event past its capacity
progress_egress_has_room_offbyone(egress_len, n_events) ==
    ~(egress_len + n_events > EgressCapacity + 1)

\* progress(): the room test of the loop, `!(len + events.len() > capacity)`
progress_egress_has_room(egress_len, n_events) ==
    ~(egress_len + n_events > EgressCapacity)

\* mutant: offset advanced before the room test, so the record that did not
\* fit is drained with the processed ones
RECURSIVE progress_loop_advance_early(_, _, _)
progress_loop_advance_early(ingest_buf, egress_buf, offset) ==
    IF offset + PING_EVENT_SIZE <= Len(ingest_buf)
    THEN LET buf        == SubSeq(ingest_buf, offset + 1, offset + PING_EVENT_SIZE)
             ping_event == from_bytes(buf)
             events     == handle_ping_event(ping_event)
         IN  IF ~progress_egress_has_room(Len(egress_buf), Len(events))
             THEN [offset |-> offset + PING_EVENT_SIZE, egress |-> egress_buf,
                   flag_egress_full |-> TRUE]
             ELSE progress_loop_advance_early(ingest_buf, egress_buf \o events,
                                              offset + PING_EVENT_SIZE)
    ELSE [offset |-> offset, egress |-> egress_buf, flag_egress_full |-> FALSE]

\* progress(): the `while offset + 32 <= self.ingest.len()` loop from `offset`
\* on; yields the final offset, the egress buffer and flag_egress_full
RECURSIVE progress_loop(_, _, _)
progress_loop(ingest_buf, egress_buf, offset) ==
    IF offset + PING_EVENT_SIZE <= Len(ingest_buf)
    THEN LET buf        == SubSeq(ingest_buf, offset + 1, offset + PING_EVENT_SIZE)
             ping_event == from_bytes(buf)
             events     == handle_ping_event(ping_event)
         IN  IF ~progress_egress_has_room(Len(egress_buf), Len(events))
             THEN [offset |-> offset, egress |-> egress_buf, flag_egress_full |-> TRUE]
             ELSE progress_loop(ingest_buf, egress_buf \o events,
                                offset + PING_EVENT_SIZE)
    ELSE [offset |-> offset, egress |-> egress_buf, flag_egress_full |-> FALSE]

\* Vec::drain(..n): the vector without its first n elements
drain(v, n) == SubSeq(v, n + 1, Len(v))

\* mutant: IngestEmpty only when egress has room as well
progress_ingest_empty_needs_room(self) ==
    Len(self.ingest) < PING_EVENT_SIZE /\ Len(self.egress) < EgressCapacity

\* progress(): the early return, `self.ingest.len() < 32`
progress_ingest_empty(self) == Len(self.ingest) < PING_EVENT_SIZE

\* PingServer::progress
progress(self) ==
    IF progress_ingest_empty(self)
    THEN [self |-> self, ret |-> "IngestEmpty"]
    ELSE LET l == progress_loop(self.ingest, self.egress, 0)
         IN  [self |-> [self EXCEPT !.ingest = drain(self.ingest, l.offset),
                                    !.egress = l.egress],
              ret  |-> IF l.flag_egress_full THEN "EgressFull" ELSE "Ok"]

\* mutant: max_events ignored, the whole buffer drained
egress_to_egress_all(self, max_events) == Len(self.egress)

\* egress(): the number of events it drains
egress_to_egress(self, max_events) == Min(Len(self.egress), max_events)

\* PingServer::egress
egress(self, max_events) ==
    LET to_egress == egress_to_egress(self, max_events)
    IN  [self   |-> [self EXCEPT !.egress = drain(@, to_egress)],
         events |-> SubSeq(self.egress, 1, to_egress)]

\* PingServer::ready_events
ready_events(self) == Len(self.egress)

(***************************************************************************)
(* The caller of the PingServer: it holds a byte stream (`wire`), hands a  *)
(* prefix of it to ingest() and keeps what ingest() did not read.          *)
(***************************************************************************)
\* the records of ping_server_handle_ping_event (server.rs tests), and one
\* whose 32 bytes are pairwise distinct where the decoding reads them
RecRed ==
    <<0, 0, 0, 0, 0, 0, 0, 0, 0, 0, 0, 0, 0, 0, 0, 0,
      0, 0, 0, 0, 0, 0, 0, 10, 0, 0, 0, 255, 0, 0, 0, 0>>
RecWhite ==
    <<0, 0, 0, 0, 0, 0, 0, 0, 0, 0, 0, 0, 0, 0, 0, 0,
      0, 0, 0, 0, 0, 0, 1, 0, 1, 0, 0, 255, 0, 255, 0, 255>>
RecMixed ==
    <<101, 102, 103, 104, 105, 106, 107, 108, 109, 110, 111, 112, 113, 114, 115, 116,
      32, 1, 13, 184, 21, 22, 23, 24, 25, 26, 27, 28, 29, 30, 31, 33>>
SampleRecords == {RecRed, RecWhite, RecMixed}

\* number of records of the stream the caller holds at the start
MaxRecords == 3

RECURSIVE Streams(_)
Streams(n) ==
    IF n = 0 THEN {<<>>}
    ELSE {r \o s : r \in SampleRecords, s \in Streams(n - 1)}

\* positions of a record (1..32) that handle_ping_event reads: destination
\* bytes 6..10, 11, 13 and 15
ReadPositions == {23, 24, 25, 26, 28, 30, 32}

\* the record with every byte that is not read replaced by v
Scramble(rec, v) == [i \in 1..32 |-> IF i \in ReadPositions THEN rec[i] ELSE v]

\* streams of a record followed by two records that agree with it where the
\* decoding reads
ScrambledStreams ==
    {r \o Scramble(r, v) \o Scramble(r, w) : r \in SampleRecords, v \in {0, 255}, w \in {7, 255}}

\* the stream starts at a record boundary, or inside a record
Skips == {0, 5}

\* lengths of the slices the caller hands to ingest()
ChunkSizes == {0, 7, 32, 45}

NoCall == [op |-> "none", arg |-> 0, ret |-> "none", read |-> 0, out |-> <<>>]

ServerIdle ==
    /\ server = PingServer_new
    /\ wire = <<>>
    /\ accepted = <<>>
    /\ emitted = <<>>
    /\ srv_call = NoCall

\* mutant: an ingest capacity of exactly one record passes the assertion
debug_assert_ingest_capacity_inclusive(ingest_capacity) == ingest_capacity >= 32

\* debug_assert!(ingest_capacity > 32, ..)
debug_assert_ingest_capacity(ingest_capacity) == ingest_capacity > 32

\* debug_assert!(egress_capacity > 0, ..)
debug_assert_egress_capacity(egress_capacity) == egress_capacity > 0

\* Vec::with_capacity(capacity) of a sized element type: empty, with exactly
\* the capacity asked for
Vec_with_capacity(capacity) == [items |-> <<>>, capacity |-> capacity]

\* PingServer::new.  debug_assert! is compiled to nothing unless
\* debug_assertions is on
new(ingest_capacity, egress_capacity, debug_assertions) ==
    IF debug_assertions /\ ~debug_assert_ingest_capacity(ingest_capacity)
    THEN [ret |-> "panic", message |-> "Ingest capacity must be greater than 32 bytes"]
    ELSE IF debug_assertions /\ ~debug_assert_egress_capacity(egress_capacity)
    THEN [ret |-> "panic", message |-> "Egress capacity must be greater than 0 events"]
    ELSE [ret |-> "Ok",
          ingest |-> Vec_with_capacity(ingest_capacity),
          egress |-> Vec_with_capacity(egress_capacity)]

\* Default for PingServer: Self::new(4096, 32)
default(debug_assertions) == new(4096, 32, debug_assertions)

\* the capacities new() is called with: around the two limits, the values
\* of the unit test, and the defaults
NewIngestCapacities == (0..40) \cup {64, 4096}
NewEgressCapacities == {0, 1, 16, 32}

NewIdle ==
    /\ new_args = None
    /\ new_ret = None

InitNew ==
    /\ new_args \in [ingest_capacity : NewIngestCapacities,
                      egress_capacity : NewEgressCapacities,
                      debug_assertions : BOOLEAN,
                      op : {"new"}]
    /\ new_ret = None

\* the call PingServer::new(ingest_capacity, egress_capacity)
New ==
    /\ new_ret = None
    /\ new_args.op = "new"
    /\ new_ret' = Some(new(new_args.ingest_capacity, new_args.egress_capacity,
                           new_args.debug_assertions))
    /\ UNCHANGED new_args

\* the call PingServer::default(), made in place of new()
Default ==
    /\ new_ret = None
    /\ new_args.ingest_capacity = 4096
    /\ new_args.egress_capacity = 32
    /\ new_args' = [new_args EXCEPT !.op = "default"]
    /\ new_ret' = Some(default(new_args.debug_assertions))

InitServerScrambled ==
    /\ server = PingServer_new
    /\ wire \in ScrambledStreams
    /\ accepted = <<>>
    /\ emitted = <<>>
    /\ srv_call = NoCall

InitServer ==
    /\ server = PingServer_new
    /\ wire \in {SubSeq(s, k + 1, Len(s)) : s \in Streams(MaxRecords), k \in Skips}
    /\ accepted = <<>>
    /\ emitted = <<>>
    /\ srv_call = NoCall

\* ingest(&wire[..n]); the caller keeps the unread tail, as the byte pump of
\* main.rs does (main.rs:260-271)
Ingest(n) ==
    LET data == SubSeq(wire, 1, n)
        r    == ingest(server, data)
    IN  /\ server' = r.self
        /\ accepted' = accepted \o SubSeq(data, 1, r.read)
        /\ wire' = SubSeq(wire, r.read + 1, Len(wire))
        /\ srv_call' = [op |-> "ingest", arg |-> n, ret |-> r.ret,
                        read |-> r.read, out |-> <<>>]
        /\ UNCHANGED emitted

Progress ==
    LET r == progress(server)
    IN  /\ server' = r.self
        /\ srv_call' = [op |-> "progress", arg |-> 0, ret |-> r.ret,
                        read |-> Len(server.ingest) - Len(r.self.ingest),
                        out |-> <<>>]
        /\ UNCHANGED <<wire, accepted, emitted>>

Egress(max_events) ==
    LET r == egress(server, max_events)
    IN  /\ server' = r.self
        /\ emitted' = emitted \o r.events
        /\ srv_call' = [op |-> "egress", arg |-> max_events, ret |-> "Ok",
                        read |-> 0, out |-> r.events]
        /\ UNCHANGED <<wire, accepted>>

ReadyEvents ==
    /\ srv_call' = [op |-> "ready_events", arg |-> 0, ret |-> "Ok",
                    read |-> ready_events(server), out |-> <<>>]
    /\ UNCHANGED <<server, wire, accepted, emitted>>

(***************************************************************************)
(* Canvas  (ipcanvas-service/src/canvas/mod.rs)                            *)
(* Option<T> is a sequence: None is <<>>, Some(v) is <<v>>.  data is       *)
(* 1-indexed: element `index` of the source is data[index + 1].            *)
(***************************************************************************)
\* canvas::colors
WHITE == [r |-> 255, g |-> 255, b |-> 255]
RED   == [r |-> 255, g |-> 0, b |-> 0]
BLUE  == [r |-> 0, g |-> 0, b |-> 255]
Colors == {WHITE, RED, BLUE}

\* Canvas::new
Canvas_new(width, height) ==
    [width |-> width, height |-> height,
     data |-> [i \in 1..(width * height) |-> WHITE]]

\* Canvas::get_pixel
get_pixel(self, x, y) ==
    IF x >= self.width \/ y >= self.height THEN None
    ELSE LET index == y * self.width + x
         IN  Some(self.data[index + 1])

\* mutant: the cell index computed without the row
set_pixel_index_no_row(self, x, y) == x

\* set_pixel(): the index of cell (x, y) in data
set_pixel_index(self, x, y) == y * self.width + x

\* Canvas::set_pixel
set_pixel(self, x, y, color) ==
    IF x >= self.width \/ y >= self.height
    THEN [self |-> self, ret |-> "Err"]
    ELSE LET index == set_pixel_index(self, x, y)
         IN  [self |-> [self EXCEPT !.data[index + 1] = color], ret |-> "Ok"]

\* Canvas::clone (derived)
clone(self) == self

\* CanvasPixelIter::new
CanvasPixelIter_new(c) == [canvas |-> c, x |-> 0, y |-> 0]

\* mutant: the end of a row tested with `>`, so x is never reset
next_wrap_late(x, width) == x > width

\* next(): the end-of-row test after `self.x += 1`
next_wrap(x, width) == x >= width

\* CanvasPixelIter::next: the item (an Option<Pixel>) and the iterator after it
next(it) ==
    IF it.y >= it.canvas.height THEN [item |-> None, it |-> it]
    ELSE LET color == get_pixel(it.canvas, it.x, it.y)
         IN  IF color = None THEN [item |-> None, it |-> it]
             ELSE [item |-> Some([x |-> it.x, y |-> it.y, color |-> color[1]]),
                   it   |-> IF next_wrap(it.x + 1, it.canvas.width)
                            THEN [it EXCEPT !.x = 0, !.y = @ + 1]
                            ELSE [it EXCEPT !.x = @ + 1]]

\* Iterator::collect on a CanvasPixelIter: next() until it yields None
RECURSIVE collect(_)
collect(it) ==
    LET n == next(it)
    IN  IF n.item = None THEN <<>> ELSE n.item \o collect(n.it)

\* Canvas::pixels, collected
pixels(self) == collect(CanvasPixelIter_new(self))

(***************************************************************************)
(* Canvas::diff  (ipcanvas-service/src/canvas/diff.rs)                     *)
(***************************************************************************)
\* mutant: the entry of a changed cell carries the colour of `self`
diff_entry_old_colour(x, y, color_self, color_other) ==
    IF color_self # color_other /\ color_self # None
    THEN <<[x |-> x, y |-> y, color |-> color_self[1]]>>
    ELSE <<>>

\* diff(): the body of the inner loop, the pixels it pushes for cell (x, y)
diff_entry(x, y, color_self, color_other) ==
    IF color_self # color_other /\ color_other # None
    THEN <<[x |-> x, y |-> y, color |-> color_other[1]]>>
    ELSE <<>>

\* diff(): `for x in 0..self.width` from x on, in row y
RECURSIVE diff_row(_, _, _, _)
diff_row(self, other, y, x) ==
    IF x >= self.width THEN <<>>
    ELSE diff_entry(x, y, get_pixel(self, x, y), get_pixel(other, x, y))
            \o diff_row(self, other, y, x + 1)

\* diff(): `for y in 0..self.height` from y on
RECURSIVE diff_rows(_, _, _)
diff_rows(self, other, y) ==
    IF y >= self.height THEN <<>>
    ELSE diff_row(self, other, y, 0) \o diff_rows(self, other, y + 1)

\* Canvas::diff: the changed_pixels of the CanvasDiff
diff(self, other) == diff_rows(self, other, 0)

(***************************************************************************)
(* The owner of the Canvas: it writes pixels, reads them, clones the       *)
(* canvas as the reference of the next diff, and diffs.                    *)
(***************************************************************************)
\* <<width, height>> of the canvases drawn
Dims == {<<2, 2>>, <<3, 1>>, <<1, 3>>, <<0, 2>>}

\* number of set_pixel calls in one run
MaxWrites == 3

Cells(c) == (0..(c.width - 1)) \X (0..(c.height - 1))

NoCanvasCall ==
    [op |-> "none", x |-> 0, y |-> 0, color |-> None, ret |-> "none", out |-> <<>>]

CanvasIdle ==
    /\ canvas = Canvas_new(0, 0)
    /\ prev_canvas = Canvas_new(0, 0)
    /\ last_write = <<>>
    /\ cv_call = NoCanvasCall
    /\ writes = 0

InitCanvas ==
    /\ \E d \in Dims : canvas = Canvas_new(d[1], d[2])
    /\ prev_canvas = clone(canvas)
    /\ last_write = [cell \in Cells(canvas) |-> None]
    /\ cv_call = NoCanvasCall
    /\ writes = 0

SetPixel(x, y, color) ==
    LET r == set_pixel(canvas, x, y, color)
    IN  /\ writes < MaxWrites
        /\ writes' = writes + 1
        /\ canvas' = r.self
        /\ last_write' = IF r.ret = "Ok"
                         THEN [last_write EXCEPT ![<<x, y>>] = Some(color)]
                         ELSE last_write
        /\ cv_call' = [op |-> "set_pixel", x |-> x, y |-> y, color |-> Some(color),
                       ret |-> r.ret, out |-> <<>>]
        /\ UNCHANGED prev_canvas

GetPixel(x, y) ==
    /\ cv_call' = [op |-> "get_pixel", x |-> x, y |-> y,
                   color |-> get_pixel(canvas, x, y), ret |-> "Ok", out |-> <<>>]
    /\ UNCHANGED <<canvas, prev_canvas, last_write, writes>>

Pixels ==
    /\ cv_call' = [op |-> "pixels", x |-> 0, y |-> 0, color |-> None,
                   ret |-> "Ok", out |-> pixels(canvas)]
    /\ UNCHANGED <<canvas, prev_canvas, last_write, writes>>

Clone ==
    /\ prev_canvas' = clone(canvas)
    /\ cv_call' = [op |-> "clone", x |-> 0, y |-> 0, color |-> None,
                   ret |-> "Ok", out |-> <<>>]
    /\ UNCHANGED <<canvas, last_write, writes>>

Diff ==
    /\ cv_call' = [op |-> "diff", x |-> 0, y |-> 0, color |-> None,
                   ret |-> "Ok", out |-> diff(prev_canvas, canvas)]
    /\ UNCHANGED <<canvas, prev_canvas, last_write, writes>>

(***************************************************************************)
(* The canvas task and the websocket hub (ipcanvas-service/src/main.rs).   *)
(* The canvas task owns canvas and prev_canvas; it reads the event channel *)
(* and writes the diff channel.  The hub reads the diff channel and keeps  *)
(* the list of subscribers.                                                *)
(***************************************************************************)
EVENT_BUFFER_SIZE == 128
DIFF_BUFFER_SIZE == 10

\* events the connection tasks may still hold in the event channel at once
MaxInFlight == 1
\* websocket clients that connect during one run
MaxSubscribers == 2

ServiceWidth == 2
ServiceHeight == 1

PlacePixel(x, y, color) == [kind |-> "PlacePixel", x |-> x, y |-> y, color |-> color]

\* the events the connection tasks send: in bounds, x out of bounds, y out of bounds
TaskEvents ==
    {PlacePixel(0, 0, RED), PlacePixel(0, 0, WHITE),
     PlacePixel(ServiceWidth, 0, RED), PlacePixel(0, ServiceHeight, RED)}

\* an event for the last cell of the canvas, drawn where no subscriber is
\* connected
CornerEvents == {PlacePixel(ServiceWidth - 1, ServiceHeight - 1, BLUE)}

PlaceLabel(x, y, text) == [kind |-> "PlaceLabel", x |-> x, y |-> y, text |-> text]

\* an event of the variant the decoder does not produce yet
LabelEvents == {PlaceLabel(0, 0, <<105, 112, 0, 0, 0, 0, 0, 0>>)}

\* how a subscriber's socket answers a write: it completes, it never
\* completes, or it fails with a write error
Healths == {"ok", "stalled", "broken"}

is_empty(d) == Len(d) = 0

\* the frame written for every diff
DiffFrame == <<1, 2, 3>>

ServiceIdle ==
    /\ event_channel = <<>>
    /\ event_closed = FALSE
    /\ change_flag = FALSE
    /\ ct_pc = "idle"
    /\ ct_diff = <<>>
    /\ ct_last = None
    /\ replica = None
    /\ diff_channel = <<>>
    /\ diff_sender_open = TRUE
    /\ diff_receiver_open = TRUE
    /\ hub_pc = "idle"
    /\ clients = <<>>
    /\ pending = {}
    /\ got = {}
    /\ failed = {}
    /\ next_id = 1
    /\ frames_sent = {}
    /\ newclient_closed = FALSE

InitService ==
    /\ canvas = Canvas_new(ServiceWidth, ServiceHeight)
    /\ prev_canvas = clone(canvas)
    /\ last_write = <<>>
    /\ cv_call = NoCanvasCall
    /\ writes = 0
    /\ event_channel = <<>>
    /\ event_closed = FALSE
    /\ change_flag = FALSE
    /\ ct_pc = "select"
    /\ ct_diff = <<>>
    /\ ct_last = None
    /\ replica = Canvas_new(ServiceWidth, ServiceHeight)
    /\ diff_channel = <<>>
    /\ diff_sender_open = TRUE
    /\ diff_receiver_open = TRUE
    /\ hub_pc = "select"
    /\ clients = <<>>
    /\ pending = {}
    /\ got = {}
    /\ failed = {}
    /\ next_id = 1
    /\ frames_sent = {}
    /\ newclient_closed = FALSE

ctVars  == <<canvas, prev_canvas, change_flag, ct_pc, ct_diff, ct_last, replica>>
hubVars == <<hub_pc, clients, pending, got, failed, next_id, frames_sent, newclient_closed>>

\* --- the connection tasks, seen from the event channel
SendEvent(e) ==
    /\ ~event_closed
    /\ Len(event_channel) < Min(EVENT_BUFFER_SIZE, MaxInFlight)
    /\ event_channel' = Append(event_channel, e)
    /\ UNCHANGED <<event_closed, ctVars, hubVars,
                   diff_channel, diff_sender_open, diff_receiver_open>>

\* every sender of the event channel is dropped
CloseEvents ==
    /\ ~event_closed
    /\ event_closed' = TRUE
    /\ UNCHANGED <<event_channel, ctVars, hubVars,
                   diff_channel, diff_sender_open, diff_receiver_open>>

\* --- canvas_task
canvas_task_place_pixel_pc_break(ret) == IF ret = "Err" THEN "final" ELSE "select"

\* where the task goes after set_pixel returned: an Err is logged, nothing else
canvas_task_place_pixel_pc(ret) == "select"

\* mutant: the flag is left as it was
set_change_flag_never(flag) == flag

\* change_flag = true, after every event
set_change_flag(flag) == TRUE

\* first branch of the biased select, Some(Event::PlacePixel)
CanvasTaskPlacePixel ==
    /\ ct_pc = "select"
    /\ event_channel # <<>>
    /\ LET event == Head(event_channel)
           r == set_pixel(canvas, event.x, event.y, event.color)
       IN  /\ event.kind = "PlacePixel"
           /\ canvas' = r.self
           /\ change_flag' = set_change_flag(change_flag)
           /\ ct_pc' = canvas_task_place_pixel_pc(r.ret)
           /\ ct_last' = Some([event |-> event, ret |-> r.ret])
    /\ event_channel' = Tail(event_channel)
    /\ UNCHANGED <<prev_canvas, ct_diff, replica, event_closed, hubVars,
                   diff_channel, diff_sender_open, diff_receiver_open>>

\* first branch of the biased select, Some(Event::PlaceLabel { .. }) or any
\* other variant: todo!() / unimplemented!() panic.  The task unwinds: its
\* receiver goes with the events it had not received, and so does its
\* diff_sender; change_flag = true is not reached
CanvasTaskUnsupported ==
    /\ ct_pc = "select"
    /\ event_channel # <<>>
    /\ Head(event_channel).kind # "PlacePixel"
    /\ ct_pc' = "panicked"
    /\ ct_last' = Some([event |-> Head(event_channel), ret |-> "panic"])
    /\ event_channel' = <<>>
    /\ event_closed' = TRUE
    /\ diff_sender_open' = FALSE
    /\ UNCHANGED <<canvas, prev_canvas, change_flag, ct_diff, replica, hubVars,
                   diff_channel, diff_receiver_open>>

\* mutant: recv() gives None as soon as the senders are gone
recv_none_on_close(channel, closed) == closed

\* recv() gives None once every sender is dropped and the buffer is empty
recv_none(channel, closed) == channel = <<>> /\ closed

\* first branch of the biased select, None: the channel is closed and drained
CanvasTaskRecvNone ==
    /\ ct_pc = "select"
    /\ recv_none(event_channel, event_closed)
    /\ ct_pc' = "final"
    /\ UNCHANGED <<canvas, prev_canvas, change_flag, ct_diff, ct_last, replica,
                   event_channel, event_closed, hubVars,
                   diff_channel, diff_sender_open, diff_receiver_open>>

\* what ct_last holds after a tick and after the final send
Tick == [kind |-> "tick"]
Final(d) == [kind |-> "final", diff |-> d]

\* mutant: the tick branch polled although recv() had an event ready
recv_pending_unbiased(channel, closed) == TRUE

\* `biased;`: the tick branch is polled only after recv() returned Pending,
\* that is with no event buffered and a sender still alive
recv_pending(channel, closed) == channel = <<>> /\ ~closed

\* mutant: the snapshot is not replaced
replace_prev_canvas_stale(prev, canvas_guard) == prev

\* prev_canvas = canvas_guard.clone()
replace_prev_canvas(prev, canvas_guard) == clone(canvas_guard)

\* what a subscriber makes of a diff: every entry painted on its own canvas
RECURSIVE apply_diff(_, _)
apply_diff(c, d) ==
    IF d = <<>> THEN c
    ELSE apply_diff(set_pixel(c, Head(d).x, Head(d).y, Head(d).color).self, Tail(d))

\* second branch: the interval ticked while recv() was pending and change_flag set
CanvasTaskTick ==
    /\ ct_pc = "select"
    /\ recv_pending(event_channel, event_closed)
    /\ change_flag
    /\ LET d == diff(prev_canvas, canvas)
       IN  IF is_empty(d)
           THEN /\ ct_last' = Some([event |-> Tick, ret |-> "empty"])
                /\ UNCHANGED <<prev_canvas, ct_pc, ct_diff>>
           ELSE /\ prev_canvas' = replace_prev_canvas(prev_canvas, canvas)
                /\ ct_diff' = d
                /\ ct_pc' = "send"
                /\ ct_last' = Some([event |-> Tick, ret |-> "publish"])
    /\ UNCHANGED <<canvas, change_flag, replica, event_channel, event_closed, hubVars,
                   diff_channel, diff_sender_open, diff_receiver_open>>

\* diff_sender.send(diff).await of the tick branch
CanvasTaskSend ==
    /\ ct_pc = "send"
    /\ IF ~diff_receiver_open
       THEN /\ ct_pc' = "final"
            /\ UNCHANGED <<diff_channel, change_flag, replica>>
       ELSE /\ Len(diff_channel) < DIFF_BUFFER_SIZE
            /\ diff_channel' = Append(diff_channel, ct_diff)
            /\ replica' = apply_diff(replica, ct_diff)
            /\ change_flag' = FALSE
            /\ ct_pc' = "select"
    /\ ct_diff' = <<>>
    /\ UNCHANGED <<canvas, prev_canvas, ct_last, event_channel, event_closed, hubVars,
                   diff_sender_open, diff_receiver_open>>

\* after the loop: the final diff is computed, whatever it holds
CanvasTaskFinal ==
    /\ ct_pc = "final"
    /\ ct_diff' = diff(prev_canvas, canvas)
    /\ ct_pc' = "final_send"
    /\ UNCHANGED <<canvas, prev_canvas, change_flag, ct_last, replica, event_channel,
                   event_closed, hubVars, diff_channel, diff_sender_open,
                   diff_receiver_open>>

\* let _ = diff_sender.send(diff).await; then the task returns and drops the sender
CanvasTaskFinalSend ==
    /\ ct_pc = "final_send"
    /\ IF ~diff_receiver_open
       THEN UNCHANGED <<diff_channel, replica>>
       ELSE /\ Len(diff_channel) < DIFF_BUFFER_SIZE
            /\ diff_channel' = Append(diff_channel, ct_diff)
            /\ replica' = apply_diff(replica, ct_diff)
    /\ ct_pc' = "done"
    /\ ct_last' = Some([event |-> Final(ct_diff), ret |-> "sent"])
    /\ ct_diff' = <<>>
    /\ diff_sender_open' = FALSE
    /\ UNCHANGED <<canvas, prev_canvas, change_flag, event_channel,
                   event_closed, hubVars, diff_receiver_open>>

\* --- ws_handler_task
ClientIds == {clients[i].id : i \in 1..Len(clients)}

\* mutant: the last subscriber is removed, whatever the index
remove_last(v, index) == SubSeq(v, 1, Len(v) - 1)

\* Vec::remove(index): the elements behind `index` move one place to the left
remove(v, index) == [i \in 1..(Len(v) - 1) |-> IF i < index THEN v[i] ELSE v[i + 1]]

\* the frame built for every client of a broadcast: Frame::binary(vec![0x01, 0x02, 0x03])
Frame_binary(d) == DiffFrame

\* first branch of the biased select, Some(diff): the broadcast starts
WsHandlerCanvasDiff ==
    /\ hub_pc = "select"
    /\ diff_channel # <<>>
    /\ diff_channel' = Tail(diff_channel)
    /\ pending' = ClientIds
    /\ got' = {}
    /\ frames_sent' = IF clients = <<>> THEN frames_sent
                      ELSE frames_sent \cup {[diff |-> Head(diff_channel),
                                               payload |-> Frame_binary(Head(diff_channel))]}
    /\ hub_pc' = IF clients = <<>> THEN "select" ELSE "broadcast"
    /\ UNCHANGED <<clients, failed, next_id, ctVars, newclient_closed, event_channel, event_closed,
                   diff_sender_open, diff_receiver_open>>

\* first branch, None: the diff channel is closed and drained, the task returns
WsHandlerDiffClosed ==
    /\ hub_pc = "select"
    /\ diff_channel = <<>>
    /\ ~diff_sender_open
    /\ hub_pc' = "done"
    /\ diff_receiver_open' = FALSE
    /\ clients' = <<>>
    /\ UNCHANGED <<pending, got, failed, next_id, frames_sent, ctVars, newclient_closed, event_channel, event_closed,
                   diff_channel, diff_sender_open>>

\* second branch: a new websocket arrives on the new-client channel
WsHandlerNewClient(health) ==
    /\ hub_pc = "select"
    /\ diff_channel = <<>>
    /\ diff_sender_open
    /\ ~newclient_closed
    /\ next_id <= MaxSubscribers
    /\ clients' = Append(clients, [id |-> next_id, health |-> health])
    /\ next_id' = next_id + 1
    /\ UNCHANGED <<hub_pc, pending, got, failed, frames_sent, ctVars, newclient_closed, event_channel, event_closed,
                   diff_channel, diff_sender_open, diff_receiver_open>>

\* the last sender of the new-client channel is dropped: main has returned
\* and no handle_ws_connection or upgrade task is left
CloseNewClients ==
    /\ ~newclient_closed
    /\ newclient_closed' = TRUE
    /\ UNCHANGED <<hub_pc, clients, pending, got, failed, next_id, frames_sent, ctVars,
                   event_channel, event_closed, diff_channel, diff_sender_open,
                   diff_receiver_open>>

\* second branch, None: recv() on the closed channel is ready at once and the
\* body is `continue`: the loop starts over with nothing changed
WsHandlerNewClientNone ==
    /\ hub_pc = "select"
    /\ diff_channel = <<>>
    /\ diff_sender_open
    /\ newclient_closed
    /\ UNCHANGED <<hubVars, ctVars, event_channel, event_closed, diff_channel,
                   diff_sender_open, diff_receiver_open>>

\* third branch: client `index` yields a frame or a read error; the select is
\* biased, so this branch is polled only when the first two are pending
WsHandlerIncoming(index, what) ==
    /\ hub_pc = "select"
    /\ diff_channel = <<>>
    /\ diff_sender_open
    /\ ~newclient_closed
    /\ index \in 1..Len(clients)
    /\ clients' = IF what \in {"Close", "Error"} THEN remove(clients, index) ELSE clients
    /\ UNCHANGED <<hub_pc, pending, got, failed, next_id, frames_sent, ctVars, newclient_closed, event_channel,
                   event_closed, diff_channel, diff_sender_open, diff_receiver_open>>

write_ready_in_turn(id) ==
    /\ id \in pending
    /\ \A other \in pending : id <= other

\* FuturesUnordered polls every write in flight: any of them may complete
write_ready(id) == id \in pending

\* one write_frame of the broadcast completes; count() returns after the last
WsHandlerWriteDone(index) ==
    /\ hub_pc = "broadcast"
    /\ index \in 1..Len(clients)
    /\ LET c == clients[index]
           result == IF c.health = "ok" THEN "Ok" ELSE "Err"
       IN  /\ write_ready(c.id)
           /\ c.health # "stalled"
           /\ pending' = pending \ {c.id}
           /\ got' = IF result = "Ok" THEN got \cup {c.id} ELSE got
           /\ failed' = IF result = "Err" THEN failed \cup {c.id} ELSE failed
           /\ UNCHANGED clients
           /\ hub_pc' = IF pending \ {c.id} = {} THEN "select" ELSE "broadcast"
    /\ UNCHANGED <<next_id, frames_sent, ctVars, newclient_closed, event_channel, event_closed,
                   diff_channel, diff_sender_open, diff_receiver_open>>

(***************************************************************************)
(* main (ipcanvas-service/src/main.rs): the accept loop, the interrupt and *)
(* the way out.  main holds one sender of the event channel and every      *)
(* handle_ping_connection task holds a clone of it; the diff channel's two *)
(* ends were moved into canvas_task and ws_handler_task.  The join handles *)
(* of the spawned tasks are dropped at once: main waits for none of them.  *)
(***************************************************************************)
\* ping connections open at once
MaxConns == 1

MainIdle ==
    /\ main_pc = "idle"
    /\ conns = 0

\* the state when main enters its loop: both tasks spawned, both sockets bound
InitMain ==
    /\ main_pc = "select"
    /\ conns = 0

\* ping_socket.accept() gave a socket: a task is spawned with event_sender.clone()
MainAcceptPing ==
    /\ main_pc = "select"
    /\ conns < MaxConns
    /\ conns' = conns + 1
    /\ UNCHANGED <<main_pc, svcVars, canvas, prev_canvas>>

\* a handle_ping_connection task returns (its socket closed or failed) and
\* drops its sender; the channel closes if that was the last one
ConnectionReturns ==
    /\ conns > 0
    /\ conns' = conns - 1
    /\ event_closed' = (conns = 1 /\ main_pc = "returned")
    /\ UNCHANGED <<main_pc, event_channel, ctVars, hubVars,
                   diff_channel, diff_sender_open, diff_receiver_open>>

\* a live connection puts an event on the channel
ConnectionSends(e) ==
    /\ conns > 0
    /\ SendEvent(e)
    /\ UNCHANGED mainVars

\* _ = &mut ctrl_c => break
MainCtrlC ==
    /\ main_pc = "select"
    /\ main_pc' = "broke"
    /\ UNCHANGED <<conns, svcVars, canvas, prev_canvas>>

\* Ok(()): main's locals are dropped, the two listeners, event_sender and
\* ws_newclient_sender among them; the event channel closes unless a
\* connection task still holds a sender, the new-client channel closes (no
\* websocket connection is open here)
MainReturn ==
    /\ main_pc = "broke"
    /\ main_pc' = "returned"
    /\ event_closed' = (conns = 0)
    /\ newclient_closed' = TRUE
    /\ UNCHANGED <<conns, event_channel, ctVars, hub_pc, clients, pending, got, failed,
                   next_id, frames_sent, diff_channel, diff_sender_open, diff_receiver_open>>

\* where a task is once the runtime is gone
cancelled(pc) == IF pc = "done" THEN "done" ELSE "cancelled"

\* block_on has returned: the runtime is dropped, every task that has not
\* finished is dropped where it waits, and the process ends
MainRuntimeDropped ==
    /\ main_pc = "returned"
    /\ main_pc' = "exited"
    /\ conns' = 0
    /\ ct_pc' = cancelled(ct_pc)
    /\ hub_pc' = cancelled(hub_pc)
    /\ event_closed' = TRUE
    /\ diff_sender_open' = FALSE
    /\ diff_receiver_open' = FALSE
    /\ UNCHANGED <<event_channel, diff_channel, canvas, prev_canvas, change_flag,
                   ct_diff, ct_last, replica, clients, pending, got, failed, next_id,
                   frames_sent, newclient_closed>>

(***************************************************************************)
(* The XDP classifier (ipcanvas-ping-ebpf) and its loader (ipcanvas-ping). *)
(* A frame is its captured length with the header fields a read within     *)
(* that length would find.                                                 *)
(***************************************************************************)
EthHdr_LEN == 14
Ipv6Hdr_LEN == 40
IcmpV6Hdr_LEN == 8
ECHO_REQUEST == 128

\* records the PING ring buffer holds before output() fails
RingRecords == 2

ZeroCell == [i \in 1..17 |-> 0]

\* From<Ipv6Prefix> for [u8; 17]
prefix_into_bytes(p) == p.address \o <<p.prefix_len>>

\* From<[u8; 17]> for Ipv6Prefix
prefix_from_bytes(bytes) ==
    [address |-> SubSeq(bytes, 1, 16), prefix_len |-> bytes[17]]

\* ptr_at::<T>(ctx, offset): data_end - data = len, size_of::<T>() = size
ptr_at(len, offset, size) ==
    IF offset + size > len THEN "Err" ELSE "Ok"

try_ipv6(frame) ==
    IF ptr_at(frame.len, 0, EthHdr_LEN) = "Err" THEN "Err"
    ELSE IF frame.ether_type = "Ipv6" THEN "Ok" ELSE "Err"

try_icmp_echo_request(frame, offset) ==
    IF ptr_at(frame.len, offset, Ipv6Hdr_LEN) = "Err" THEN "Err"
    ELSE IF frame.next_hdr = "Ipv6Icmp"
         THEN IF ptr_at(frame.len, offset + Ipv6Hdr_LEN, IcmpV6Hdr_LEN) = "Err" THEN "Err"
              ELSE IF frame.icmp_type = ECHO_REQUEST THEN "Ok" ELSE "Err"
         ELSE "Err"

extract_ipv6_addresses(frame, offset) ==
    IF ptr_at(frame.len, offset, Ipv6Hdr_LEN) = "Err" THEN None
    ELSE Some(<<frame.src_addr, frame.dst_addr>>)

\* PREFIX.get(index) on an array map of one entry
PREFIX_get(cell, index) == IF index < 1 THEN Some(cell) ELSE None

output_verdict_pass(result) == "XDP_PASS"

\* the verdict after PING.output returned
output_verdict(result) == IF result = "Ok" THEN "XDP_PASS" ELSE "XDP_DROP"

\* PING.output succeeds iff the ring buffer has room for the record
output_has_room(ring) == Len(ring) < RingRecords

event_of_swapped(src, dst) ==
    [source_address |-> dst, destination_address |-> src]

\* PingEvent { source_address, destination_address }
event_of(src, dst) ==
    [source_address |-> src, destination_address |-> dst]

\* ipcanvas_ping(ctx): the verdict and the ring buffer afterwards
ipcanvas_ping(frame, cell, ring) ==
    IF try_ipv6(frame) = "Err" THEN [verdict |-> "XDP_PASS", ring |-> ring]
    ELSE IF try_icmp_echo_request(frame, EthHdr_LEN) = "Err"
    THEN [verdict |-> "XDP_PASS", ring |-> ring]
    ELSE LET addrs == extract_ipv6_addresses(frame, EthHdr_LEN)
             prefix_bytes == PREFIX_get(cell, 0)
         IN  IF addrs = None THEN [verdict |-> "XDP_PASS", ring |-> ring]
             ELSE IF prefix_bytes = None THEN [verdict |-> "XDP_ABORTED", ring |-> ring]
             ELSE IF ~matches(prefix_from_bytes(prefix_bytes[1]), addrs[1][2])
             THEN [verdict |-> "XDP_PASS", ring |-> ring]
             ELSE IF output_has_room(ring)
             THEN [verdict |-> output_verdict("Ok"),
                   ring |-> Append(ring, event_of(addrs[1][1], addrs[1][2]))]
             ELSE [verdict |-> output_verdict("Err"), ring |-> ring]

\* --- inputs
FrameLens ==
    {EthHdr_LEN - 1, EthHdr_LEN,
     EthHdr_LEN + Ipv6Hdr_LEN - 1, EthHdr_LEN + Ipv6Hdr_LEN,
     EthHdr_LEN + Ipv6Hdr_LEN + IcmpV6Hdr_LEN - 1,
     EthHdr_LEN + Ipv6Hdr_LEN + IcmpV6Hdr_LEN}

\* a field past the captured length holds what a read past the end would
\* find; it is drawn as the value that would let the frame through
Frames ==
    {f \in [len : FrameLens, ether_type : {"Ipv6", "Ipv4"},
            next_hdr : {"Ipv6Icmp", "Tcp"},
            icmp_type : {ECHO_REQUEST, ECHO_REQUEST + 1},
            src_addr : {AddrFF, Addr4320}, dst_addr : {Addr4320, AddrFF}] :
        /\ f.len < EthHdr_LEN => f.ether_type = "Ipv6"
        /\ f.len < EthHdr_LEN + Ipv6Hdr_LEN =>
                f.next_hdr = "Ipv6Icmp" /\ f.src_addr = AddrFF /\ f.dst_addr = Addr4320
        /\ f.len < EthHdr_LEN + Ipv6Hdr_LEN + IcmpV6Hdr_LEN =>
                f.icmp_type = ECHO_REQUEST}

(***************************************************************************)
(* The --prefix argument of the loader and its parsing,                    *)
(* Ipv6Prefix::from_str (ipcanvas-ping-common/src/prefix.rs).  A text is   *)
(* the sequence of its characters.  Err(()) is None, Ok(v) is Some(v).     *)
(***************************************************************************)
\* str::split(sep): the pieces between the separators, empty pieces included
RECURSIVE split(_, _)
split(s, sep) ==
    LET at == {i \in 1..Len(s) : s[i] = sep}
    IN  IF at = {} THEN <<s>>
        ELSE LET i == CHOOSE j \in at : \A k \in at : j <= k
             IN  <<SubSeq(s, 1, i - 1)>> \o split(SubSeq(s, i + 1, Len(s)), sep)

HexChars == <<"0", "1", "2", "3", "4", "5", "6", "7", "8", "9", "a", "b", "c", "d", "e", "f">>

IsDigit(c, radix) == \E i \in 1..radix : HexChars[i] = c

DigitValue(c) == (CHOOSE i \in 1..16 : HexChars[i] = c) - 1

\* the value of a non-empty run of digits
RECURSIVE NumberValue(_, _)
NumberValue(digits, radix) ==
    IF digits = <<>> THEN 0
    ELSE NumberValue(SubSeq(digits, 1, Len(digits) - 1), radix) * radix
         + DigitValue(digits[Len(digits)])

\* str::parse::<u8>(): an optional "+", at least one decimal digit, nothing
\* else, and a value that fits in eight bits
parse_u8(s) ==
    LET digits == IF s # <<>> /\ s[1] = "+" THEN Tail(s) ELSE s
    IN  IF digits = <<>> THEN None
        ELSE IF \E i \in 1..Len(digits) : ~IsDigit(digits[i], 10) THEN None
        ELSE IF NumberValue(digits, 10) > 255 THEN None
        ELSE Some(NumberValue(digits, 10))

\* one group of an address: one to four hexadecimal digits
IsGroup(g) == Len(g) \in 1..4 /\ \A i \in 1..Len(g) : IsDigit(g[i], 16)

RECURSIVE GroupOctets(_)
GroupOctets(groups) ==
    IF groups = <<>> THEN <<>>
    ELSE LET v == NumberValue(Head(groups), 16)
         IN  <<v \div 256, v % 256>> \o GroupOctets(Tail(groups))

\* str::parse::<Ipv6Addr>() on texts of lower-case hexadecimal groups: eight
\* groups, or fewer with one "::" between two groups
parse_Ipv6Addr(s) ==
    LET groups == split(s, ":")
        empty  == {i \in 1..Len(groups) : groups[i] = <<>>}
        given  == SelectSeq(groups, LAMBDA g : g # <<>>)
    IN  IF \E i \in 1..Len(given) : ~IsGroup(given[i]) THEN None
        ELSE IF empty = {} THEN
            IF Len(groups) = 8 THEN Some(GroupOctets(groups)) ELSE None
        ELSE IF Cardinality(empty) = 1 /\ Len(given) <= 7
                /\ empty \cap {1, Len(groups)} = {} THEN
            LET i == CHOOSE j \in empty : TRUE
            IN  Some(GroupOctets(SubSeq(groups, 1, i - 1))
                     \o [k \in 1..(2 * (8 - Len(given))) |-> 0]
                     \o GroupOctets(SubSeq(groups, i + 1, Len(groups))))
        ELSE None

\* Ipv6Prefix::from_str
from_str(s) ==
    LET parts == split(s, "/")
    IN  IF Len(parts) # 2 THEN None
        ELSE LET a == parse_Ipv6Addr(parts[1])
                 prefix_len == parse_u8(parts[2])
             IN  IF a = None THEN None
                 ELSE IF prefix_len = None THEN None
                 ELSE Some([address |-> a[1], prefix_len |-> prefix_len[1]])

\* "2001:db8::4320" and "ffff:ffff:ffff:ffff:ffff:ffff:ffff:ffff"
Text4320 ==
    <<"2", "0", "0", "1", ":", "d", "b", "8", ":", ":", "4", "3", "2", "0">>
TextFF ==
    <<"f", "f", "f", "f", ":", "f", "f", "f", "f", ":", "f", "f", "f", "f",
      ":", "f", "f", "f", "f", ":", "f", "f", "f", "f", ":", "f", "f", "f",
      "f", ":", "f", "f", "f", "f", ":", "f", "f", "f", "f">>
\* seven groups and no "::", and a group that is not hexadecimal
TextShort ==
    <<"2", "0", "0", "1", ":", "d", "b", "8", ":", "0", ":", "0", ":", "0",
      ":", "0", ":", "4", "3", "2", "0">>
TextNotHex ==
    <<"2", "0", "0", "1", ":", "d", "b", "8", ":", ":", "4", "3", "2", "g">>

\* the lengths written after the "/"
LengthTexts ==
    {<<"0">>, <<"6", "4">>, <<"1", "2", "8">>, <<"1", "2", "9">>, <<"2", "5", "5">>,
     <<"2", "5", "6">>, <<"-", "1">>, <<"6", "4", "/", "1">>, <<>>}

\* the texts the loader is started with
PrefixTexts ==
    {Text4320 \o <<"/">> \o l : l \in LengthTexts}
    \cup {TextFF \o <<"/", "1", "2", "8">>, Text4320, TextShort \o <<"/", "6", "4">>, TextNotHex \o <<"/", "6", "4">>,
          <<"/", "6", "4">>}

ConfiguredPrefixes ==
    {[address |-> Addr4320, prefix_len |-> 64],
     [address |-> AddrFF, prefix_len |-> 128]}

NoXdpCall == [op |-> "none"]

XdpIdle ==
    /\ loader_pc = "idle"
    /\ opt_text = <<>>
    /\ opt_prefix = [address |-> Addr4320, prefix_len |-> 0]
    /\ PREFIX = ZeroCell
    /\ prefix_sets = 0
    /\ PING = <<>>
    /\ xdp_call = NoXdpCall

\* the loader after it has parsed its --prefix argument
InitXdp ==
    /\ loader_pc = "start"
    /\ opt_prefix \in ConfiguredPrefixes
    /\ opt_text \in {t \in PrefixTexts : from_str(t) = Some(opt_prefix)}
    /\ PREFIX = ZeroCell
    /\ prefix_sets = 0
    /\ PING = <<>>
    /\ xdp_call = NoXdpCall

\* the loader when main is about to parse its --prefix argument
InitXdpParse ==
    /\ loader_pc = "parse"
    /\ opt_text \in PrefixTexts
    /\ opt_prefix = None
    /\ PREFIX = ZeroCell
    /\ prefix_sets = 0
    /\ PING = <<>>
    /\ xdp_call = NoXdpCall

Attached == loader_pc \in {"attached", "running"}

\* --- the loader's main, in program order
\* Ipv6Prefix::from_str(&prefix).map_err(..)?: main returns on Err
LoaderParsePrefix ==
    /\ loader_pc = "parse"
    /\ LET r == from_str(opt_text)
       IN  IF r = None
           THEN /\ loader_pc' = "failed"
                /\ UNCHANGED opt_prefix
           ELSE /\ loader_pc' = "start"
                /\ opt_prefix' = r[1]
    /\ UNCHANGED <<opt_text, PREFIX, prefix_sets, PING, xdp_call>>

LoaderLoad ==
    /\ loader_pc = "start"
    /\ loader_pc' = "loaded"
    /\ UNCHANGED <<opt_text, opt_prefix, PREFIX, prefix_sets, PING, xdp_call>>

LoaderAttach ==
    /\ loader_pc = "loaded"
    /\ loader_pc' = "attached"
    /\ UNCHANGED <<opt_text, opt_prefix, PREFIX, prefix_sets, PING, xdp_call>>

LoaderSetPrefix ==
    /\ loader_pc = "attached"
    /\ PREFIX' = prefix_into_bytes(opt_prefix)
    /\ prefix_sets' = prefix_sets + 1
    /\ loader_pc' = "running"
    /\ UNCHANGED <<opt_text, opt_prefix, PING, xdp_call>>

\* the ring buffer consumer loop takes the oldest record
LoaderConsume ==
    /\ loader_pc = "running"
    /\ PING # <<>>
    /\ PING' = Tail(PING)
    /\ UNCHANGED <<loader_pc, opt_text, opt_prefix, PREFIX, prefix_sets, xdp_call>>

\* Ctrl-C: main returns, the program is detached
LoaderExit ==
    /\ loader_pc = "running"
    /\ loader_pc' = "exited"
    /\ UNCHANGED <<opt_text, opt_prefix, PREFIX, prefix_sets, PING, xdp_call>>

\* --- the kernel runs the program on a frame received on the interface
Classify(frame) ==
    /\ Attached
    /\ LET r == ipcanvas_ping(frame, PREFIX, PING)
       IN  /\ PING' = r.ring
           /\ xdp_call' = [op |-> "ipcanvas_ping", frame |-> frame, cell |-> PREFIX,
                           room |-> output_has_room(PING), verdict |-> r.verdict]
    /\ UNCHANGED <<loader_pc, opt_text, opt_prefix, PREFIX, prefix_sets>>

(***************************************************************************)
(* handle_ping_connection (ipcanvas-service/src/main.rs): the byte pump of *)
(* one PingRecord connection.  `wire` holds the bytes the socket has still *)
(* to deliver, read_buf is read_buf[..read_len], `accepted` the bytes      *)
(* ingest() has taken and `emitted` the events sent on the event channel.  *)
(***************************************************************************)
READ_BUF_SIZE == 4096

\* MaxRecords drawn records and one more, so that the stream is longer than
\* the ingest buffer; the connection starts at a record boundary or inside
\* a record
PumpStreams ==
    {SubSeq(s \o RecMixed, k + 1, Len(s) + PING_EVENT_SIZE) :
        s \in Streams(MaxRecords), k \in Skips}

\* the lengths a read of the socket may return
PumpReads(w) ==
    {n \in ChunkSizes \cup {Len(w)} : 0 < n /\ n <= Min(Len(w), READ_BUF_SIZE)}

copy_within_no_shift(buf, read) == SubSeq(buf, 1, Len(buf) - read)

\* mutant: read_len is not reduced, the bytes ingest() took stay in front
copy_within_keep_all(buf, read) == buf

\* read_buf.copy_within(read..read_len, 0); read_len -= read
copy_within(buf, read) == SubSeq(buf, read + 1, Len(buf))

PumpIdle ==
    /\ pump_pc = "idle"
    /\ read_buf = <<>>
    /\ should_block_read = FALSE
    /\ event_receiver_open = TRUE
    /\ pump_seen = {}
    /\ arrived = <<>>

InitPumpConnection ==
    /\ server = PingServer_default
    /\ wire \in PumpStreams
    /\ accepted = <<>>
    /\ emitted = <<>>
    /\ srv_call = NoCall
    /\ pump_pc = "egress"
    /\ read_buf = <<>>
    /\ should_block_read = FALSE
    /\ event_receiver_open = TRUE
    /\ pump_seen = {}
    /\ arrived = <<>>

\* top of the loop: ready_events, reserve_many, egress, one send per permit
PumpEgress ==
    /\ pump_pc = "egress"
    /\ LET to_egress == ready_events(server)
           n == Min(to_egress, EVENT_BUFFER_SIZE)
           r == egress(server, n)
       IN  IF to_egress = 0
           THEN /\ pump_pc' = "progress"
                /\ UNCHANGED <<server, event_channel, emitted>>
           ELSE IF ~event_receiver_open
           THEN /\ pump_pc' = "done"
                /\ UNCHANGED <<server, event_channel, emitted>>
           ELSE /\ Len(event_channel) + n <= EVENT_BUFFER_SIZE
                /\ server' = r.self
                /\ event_channel' = event_channel \o r.events
                /\ emitted' = emitted \o r.events
                /\ pump_pc' = "progress"
    /\ UNCHANGED <<wire, accepted, srv_call, read_buf, should_block_read,
                   event_receiver_open, pump_seen, arrived>>

\* mutant: the pump may block after any error of progress()
should_block_read_on_any_error(rst) == rst # "Ok"

\* the match on the result of progress(): should_block_read is set in the
\* IngestEmpty arm only
should_block_read_after(rst) == rst = "IngestEmpty"

\* ping_server.progress() and the match on its result
PumpProgress ==
    /\ pump_pc = "progress"
    /\ LET r == progress(server)
       IN  /\ server' = r.self
           /\ should_block_read' = should_block_read_after(r.ret)
           /\ pump_seen' = IF r.ret = "EgressFull"
                           THEN pump_seen \cup {"EgressFull"} ELSE pump_seen
    /\ pump_pc' = "read"
    /\ UNCHANGED <<wire, accepted, emitted, srv_call, read_buf, event_channel,
                   event_receiver_open, arrived>>

\* if read_len == 0: reader.try_read(&mut read_buf)
PumpTryRead(result, n) ==
    /\ pump_pc = "read"
    /\ IF read_buf # <<>>
       THEN /\ result = "Skipped"
            /\ pump_pc' = "ingest"
            /\ UNCHANGED <<wire, read_buf, arrived, pump_seen>>
       ELSE \/ /\ result = "Ok"
               /\ IF wire = <<>>
                  THEN /\ n = 0
                       /\ pump_pc' = "done"
                       /\ pump_seen' = pump_seen \cup {"Eof"}
                       /\ UNCHANGED <<wire, read_buf, arrived>>
                  ELSE /\ n \in PumpReads(wire)
                       /\ read_buf' = SubSeq(wire, 1, n)
                       /\ arrived' = arrived \o SubSeq(wire, 1, n)
                       /\ wire' = SubSeq(wire, n + 1, Len(wire))
                       /\ pump_pc' = "ingest"
                       /\ UNCHANGED pump_seen
            \/ /\ result = "WouldBlock"
               /\ pump_pc' = IF should_block_read THEN "block_read" ELSE "ingest"
               /\ UNCHANGED <<wire, read_buf, arrived, pump_seen>>
            \/ /\ result = "Err"
               /\ pump_pc' = "done"
               /\ UNCHANGED <<wire, read_buf, arrived, pump_seen>>
    /\ UNCHANGED <<server, accepted, emitted, srv_call, should_block_read,
                   event_channel, event_receiver_open>>

\* if read_len == 0 && should_block_read: reader.read(&mut read_buf).await
PumpBlockingRead(result, n) ==
    /\ pump_pc = "block_read"
    /\ \/ /\ result = "Ok"
          /\ IF wire = <<>>
             THEN /\ n = 0
                  /\ pump_pc' = "done"
                  /\ pump_seen' = pump_seen \cup {"Eof"}
                  /\ UNCHANGED <<wire, read_buf, arrived>>
             ELSE /\ n \in PumpReads(wire)
                  /\ read_buf' = SubSeq(wire, 1, n)
                  /\ arrived' = arrived \o SubSeq(wire, 1, n)
                  /\ wire' = SubSeq(wire, n + 1, Len(wire))
                  /\ pump_pc' = "ingest"
                  /\ UNCHANGED pump_seen
       \/ /\ result = "Err"
          /\ pump_pc' = "done"
          /\ UNCHANGED <<wire, read_buf, arrived, pump_seen>>
    /\ UNCHANGED <<server, accepted, emitted, srv_call, should_block_read,
                   event_channel, event_receiver_open>>

\* if read_len > 0: ping_server.ingest(&read_buf[..read_len])
PumpIngest ==
    /\ pump_pc = "ingest"
    /\ IF read_buf = <<>>
       THEN UNCHANGED <<server, accepted, read_buf, pump_seen>>
       ELSE LET r == ingest(server, read_buf)
            IN  /\ server' = r.self
                /\ accepted' = accepted \o SubSeq(read_buf, 1, r.read)
                /\ read_buf' = IF r.ret = "Ok" THEN <<>> ELSE copy_within(read_buf, r.read)
                /\ pump_seen' = IF r.ret = "IngestFull"
                                THEN pump_seen \cup {"IngestFull"} ELSE pump_seen
    /\ pump_pc' = "egress"
    /\ UNCHANGED <<wire, emitted, srv_call, should_block_read, event_channel,
                   event_receiver_open, arrived>>

\* the canvas task takes the oldest event of the channel
PumpChannelRecv ==
    /\ event_channel # <<>>
    /\ event_channel' = Tail(event_channel)
    /\ UNCHANGED <<srvVars, pumpVars>>

\* the canvas task has ended: the receiver of the event channel is dropped
PumpReceiverDropped ==
    /\ event_receiver_open
    /\ event_receiver_open' = FALSE
    /\ UNCHANGED <<srvVars, pump_pc, read_buf, should_block_read, pump_seen,
                   arrived, event_channel>>

(***************************************************************************)
(* Specifications                                                          *)
(***************************************************************************)
InitPrefix == InitPrefixInputs /\ ServerIdle /\ CanvasIdle /\ ServiceIdle /\ XdpIdle /\ PumpIdle /\ NewIdle /\ MainIdle

NextPrefix == Matches /\ UNCHANGED notPfx

SpecPrefix == InitPrefix /\ [][NextPrefix]_vars

InitSrv == PrefixIdle /\ InitServer /\ CanvasIdle /\ ServiceIdle /\ XdpIdle /\ PumpIdle /\ NewIdle /\ MainIdle

IngestStep ==
    /\ \E n \in {m \in ChunkSizes : m <= Len(wire)} \cup {Len(wire)} : Ingest(n)
    /\ UNCHANGED notSrv

ProgressStep == Progress /\ UNCHANGED notSrv

EgressStep ==
    /\ \E max_events \in 0..(EgressCapacity + 1) : Egress(max_events)
    /\ UNCHANGED notSrv

ReadyEventsStep == ReadyEvents /\ UNCHANGED notSrv

NextServer == IngestStep \/ ProgressStep \/ EgressStep \/ ReadyEventsStep

SpecServer == InitSrv /\ [][NextServer]_vars

InitConstruct ==
    PrefixIdle /\ ServerIdle /\ InitNew /\ CanvasIdle /\ ServiceIdle /\ MainIdle
    /\ XdpIdle /\ PumpIdle

NewStep == New /\ UNCHANGED notNew

DefaultStep == Default /\ UNCHANGED notNew

NextNew == NewStep \/ DefaultStep

SpecNew == InitConstruct /\ [][NextNew]_vars

\* the PingServer on streams whose records differ only where the decoding
\* does not read
InitScrambled ==
    PrefixIdle /\ InitServerScrambled /\ CanvasIdle /\ ServiceIdle /\ XdpIdle /\ PumpIdle
    /\ NewIdle /\ MainIdle

SpecScrambled == InitScrambled /\ [][NextServer]_vars

InitCv == PrefixIdle /\ ServerIdle /\ InitCanvas /\ ServiceIdle /\ XdpIdle /\ PumpIdle /\ NewIdle /\ MainIdle

SetPixelStep ==
    /\ \E x \in 0..canvas.width, y \in 0..canvas.height, color \in Colors :
            SetPixel(x, y, color)
    /\ UNCHANGED notCv

GetPixelStep ==
    /\ \E x \in 0..canvas.width, y \in 0..canvas.height : GetPixel(x, y)
    /\ UNCHANGED notCv

PixelsStep == Pixels /\ UNCHANGED notCv

CloneStep == Clone /\ UNCHANGED notCv

DiffStep == Diff /\ UNCHANGED notCv

NextCanvas == SetPixelStep \/ GetPixelStep \/ PixelsStep \/ CloneStep \/ DiffStep

SpecCanvas == InitCv /\ [][NextCanvas]_vars

InitSvc == PrefixIdle /\ ServerIdle /\ InitService /\ XdpIdle /\ PumpIdle /\ NewIdle /\ MainIdle

SendEventStep == (\E e \in TaskEvents : SendEvent(e)) /\ UNCHANGED notSvc

CloseEventsStep == CloseEvents /\ UNCHANGED notSvc

CanvasTaskPlacePixelStep == CanvasTaskPlacePixel /\ UNCHANGED notSvc

CanvasTaskRecvNoneStep == CanvasTaskRecvNone /\ UNCHANGED notSvc

CanvasTaskTickStep == CanvasTaskTick /\ UNCHANGED notSvc

CanvasTaskSendStep == CanvasTaskSend /\ UNCHANGED notSvc

CanvasTaskFinalStep == CanvasTaskFinal /\ UNCHANGED notSvc

CanvasTaskFinalSendStep == CanvasTaskFinalSend /\ UNCHANGED notSvc

WsHandlerCanvasDiffStep == WsHandlerCanvasDiff /\ UNCHANGED notSvc

WsHandlerDiffClosedStep == WsHandlerDiffClosed /\ UNCHANGED notSvc

WsHandlerNewClientStep == (\E h \in Healths : WsHandlerNewClient(h)) /\ UNCHANGED notSvc

WsHandlerIncomingStep ==
    /\ \E index \in 1..Len(clients), what \in {"Close", "Error", "Other"} :
            WsHandlerIncoming(index, what)
    /\ UNCHANGED notSvc

WsHandlerWriteDoneStep ==
    /\ \E index \in 1..Len(clients) : WsHandlerWriteDone(index)
    /\ UNCHANGED notSvc

NextService ==
    \/ SendEventStep \/ CloseEventsStep
    \/ CanvasTaskPlacePixelStep \/ CanvasTaskRecvNoneStep \/ CanvasTaskTickStep
    \/ CanvasTaskSendStep \/ CanvasTaskFinalStep \/ CanvasTaskFinalSendStep
    \/ WsHandlerCanvasDiffStep \/ WsHandlerDiffClosedStep \/ WsHandlerNewClientStep
    \/ WsHandlerIncomingStep \/ WsHandlerWriteDoneStep

SpecService == InitSvc /\ [][NextService]_vars

\* the service when the new-client channel may close under the hub
CloseNewClientsStep == CloseNewClients /\ UNCHANGED notSvc

WsHandlerNewClientNoneStep == WsHandlerNewClientNone /\ UNCHANGED notSvc

NextNewClientClosed == NextService \/ CloseNewClientsStep \/ WsHandlerNewClientNoneStep

SpecNewClientClosed == InitSvc /\ [][NextNewClientClosed]_vars

\* the service while no websocket client has connected: the hub only takes
\* the diffs off the channel
SendCornerStep == (\E e \in CornerEvents : SendEvent(e)) /\ UNCHANGED notSvc

NextCanvasTask ==
    \/ SendEventStep \/ SendCornerStep \/ CloseEventsStep
    \/ CanvasTaskPlacePixelStep \/ CanvasTaskRecvNoneStep \/ CanvasTaskTickStep
    \/ CanvasTaskSendStep \/ CanvasTaskFinalStep \/ CanvasTaskFinalSendStep
    \/ WsHandlerCanvasDiffStep \/ WsHandlerDiffClosedStep

SpecCanvasTask == InitSvc /\ [][NextCanvasTask]_vars

\* canvas_task on a channel that carries every variant of Event
SendLabelStep == (\E e \in LabelEvents : SendEvent(e)) /\ UNCHANGED notSvc

CanvasTaskUnsupportedStep == CanvasTaskUnsupported /\ UNCHANGED notSvc

NextAnyEvent == NextCanvasTask \/ SendLabelStep \/ CanvasTaskUnsupportedStep

SpecAnyEvent == InitSvc /\ [][NextAnyEvent]_vars

InitShutdown ==
    PrefixIdle /\ ServerIdle /\ NewIdle /\ InitService /\ InitMain /\ XdpIdle /\ PumpIdle

MainAcceptPingStep == MainAcceptPing /\ UNCHANGED notMain

ConnectionReturnsStep == ConnectionReturns /\ UNCHANGED notMain

ConnectionSendsStep == (\E e \in TaskEvents : ConnectionSends(e)) /\ UNCHANGED notMain

MainCtrlCStep == MainCtrlC /\ UNCHANGED notMain

MainReturnStep == MainReturn /\ UNCHANGED notMain

MainRuntimeDroppedStep == MainRuntimeDropped /\ UNCHANGED notMain

NextShutdown ==
    \/ MainAcceptPingStep \/ ConnectionReturnsStep \/ ConnectionSendsStep
    \/ MainCtrlCStep \/ MainReturnStep \/ MainRuntimeDroppedStep
    \/ CanvasTaskPlacePixelStep \/ CanvasTaskRecvNoneStep \/ CanvasTaskTickStep
    \/ CanvasTaskSendStep \/ CanvasTaskFinalStep \/ CanvasTaskFinalSendStep
    \/ WsHandlerCanvasDiffStep \/ WsHandlerDiffClosedStep \/ WsHandlerNewClientNoneStep

SpecShutdown == InitShutdown /\ [][NextShutdown]_vars

InitClassifier == PrefixIdle /\ ServerIdle /\ CanvasIdle /\ ServiceIdle /\ InitXdp /\ PumpIdle /\ NewIdle /\ MainIdle

LoaderLoadStep == LoaderLoad /\ UNCHANGED notXdp

LoaderAttachStep == LoaderAttach /\ UNCHANGED notXdp

LoaderSetPrefixStep == LoaderSetPrefix /\ UNCHANGED notXdp

LoaderConsumeStep == LoaderConsume /\ UNCHANGED notXdp

LoaderExitStep == LoaderExit /\ UNCHANGED notXdp

ClassifyStep == (\E frame \in Frames : Classify(frame)) /\ UNCHANGED notXdp

NextClassifier ==
    \/ LoaderLoadStep \/ LoaderAttachStep \/ LoaderSetPrefixStep
    \/ LoaderConsumeStep \/ LoaderExitStep \/ ClassifyStep

SpecClassifier == InitClassifier /\ [][NextClassifier]_vars

\* the loader from its command line on
InitLoader ==
    PrefixIdle /\ ServerIdle /\ CanvasIdle /\ ServiceIdle /\ InitXdpParse /\ PumpIdle
    /\ NewIdle /\ MainIdle

LoaderParsePrefixStep == LoaderParsePrefix /\ UNCHANGED notXdp

NextLoader == LoaderParsePrefixStep \/ NextClassifier

SpecLoader == InitLoader /\ [][NextLoader]_vars

InitPump ==
    PrefixIdle /\ CanvasIdle /\ ServiceIdle /\ XdpIdle /\ InitPumpConnection /\ NewIdle /\ MainIdle

PumpEgressStep == PumpEgress /\ UNCHANGED notPump

PumpProgressStep == PumpProgress /\ UNCHANGED notPump

PumpTryReadStep ==
    /\ \E result \in {"Skipped", "Ok", "WouldBlock", "Err"},
          n \in PumpReads(wire) \cup {0} :
            PumpTryRead(result, n)
    /\ UNCHANGED notPump

PumpBlockingReadStep ==
    /\ \E result \in {"Ok", "Err"}, n \in PumpReads(wire) \cup {0} :
            PumpBlockingRead(result, n)
    /\ UNCHANGED notPump

PumpIngestStep == PumpIngest /\ UNCHANGED notPump

PumpChannelRecvStep == PumpChannelRecv /\ UNCHANGED notPump

PumpReceiverDroppedStep == PumpReceiverDropped /\ UNCHANGED notPump

NextPump ==
    \/ PumpEgressStep \/ PumpProgressStep \/ PumpTryReadStep \/ PumpBlockingReadStep
    \/ PumpIngestStep \/ PumpChannelRecvStep \/ PumpReceiverDroppedStep

SpecPump == InitPump /\ [][NextPump]_vars


(***************************************************************************)
(* C1 - matches(P, A) is TRUE iff the first prefix_len bits of A equal the *)
(* first prefix_len bits of P.address; prefix_len = 0 matches every        *)
(* address, prefix_len = 128 is equality of the addresses, and the bits of *)
(* P.address past prefix_len do not change the result.                     *)
(***************************************************************************)
TopBitsEqual(a, b, len) == \A i \in 0..(len - 1) : Bit(a, i) = Bit(b, i)

\* the address a with every bit from bit `len` on cleared
ClearFrom(a, len) ==
    [k \in 1..16 |->
        LET kept == IF len >= 8 * k THEN 8
                    ELSE IF len <= 8 * (k - 1) THEN 0
                    ELSE len - 8 * (k - 1)
        IN  (a[k] \div Pow2(8 - kept)) * Pow2(8 - kept)]

C1_MatchesIffTopBitsEqual ==
    pfx_pc = "done" =>
        /\ matched = TopBitsEqual(prefix.address, addr, prefix.prefix_len)
        /\ (prefix.prefix_len = 0 => matched)
        /\ (prefix.prefix_len = 128 => (matched = (addr = prefix.address)))
        /\ matched = matches([prefix EXCEPT
                                !.address = ClearFrom(@, prefix.prefix_len)], addr)

\* a /127 prefix whose stored address has a set bit past the prefix length
\* matches an address that is not equal to it
C1_Witness ==
    /\ pfx_pc = "done"
    /\ prefix.prefix_len = 127
    /\ Bit(prefix.address, 127) = 1
    /\ addr # prefix.address
    /\ matched

\* a /12 prefix rejects an address that differs in bit 9 only
C1_WitnessReject ==
    /\ pfx_pc = "done"
    /\ prefix.prefix_len = 12
    /\ addr = FlipBit(prefix.address, 9)
    /\ ~matched

(***************************************************************************)
(* Reference decoding of the byte stream, written from the record layout:  *)
(* bytes 0..16 of a record are the source, bytes 16..32 the destination.   *)
(***************************************************************************)
RefDecode(rec) ==
    [kind  |-> "PlacePixel",
     x     |-> rec[23] * 256 + rec[24],
     y     |-> rec[25] * 256 + rec[26],
     color |-> [r |-> rec[28], g |-> rec[30], b |-> rec[32]]]

RefRecord(bytes, i) == SubSeq(bytes, 32 * (i - 1) + 1, 32 * i)

RefDecodeAll(bytes) ==
    [i \in 1..(Len(bytes) \div 32) |-> RefDecode(RefRecord(bytes, i))]

SeqToBag(s) ==
    [e \in {s[i] : i \in 1..Len(s)} |-> Cardinality({i \in 1..Len(s) : s[i] = e})]

Completed ==
    /\ srv_call.op = "progress"
    /\ srv_call.ret = "IngestEmpty"
    /\ server.egress = <<>>

C3_EventsAreDecodedStream ==
    Completed =>
        /\ SeqToBag(emitted) = SeqToBag(RefDecodeAll(accepted))
        /\ Len(server.ingest) < 32
        /\ server.ingest =
             SubSeq(accepted, Len(accepted) - (Len(accepted) % 32) + 1, Len(accepted))

\* completion after the ingest buffer had filled up, with two events out and
\* a partial record left
C3_Witness ==
    /\ Completed
    /\ Len(emitted) = 2
    /\ Len(server.ingest) = 27
    /\ emitted[1] # emitted[2]

(***************************************************************************)
(* C4 - ingest(data) copies read = min(len(data), capacity - length)       *)
(* bytes, a prefix of data, to the back of the ingest buffer; it returns   *)
(* IngestFull{read} iff read < len(data) and Ok otherwise; the egress      *)
(* buffer is unchanged.                                                    *)
(***************************************************************************)
C4_IngestStep ==
    srv_call'.op = "ingest" =>
        LET data == SubSeq(wire, 1, srv_call'.arg)
            room == IngestCapacity - Len(server.ingest)
            read == IF Len(data) < room THEN Len(data) ELSE room
        IN  /\ srv_call'.read = read
            /\ server'.ingest = server.ingest \o SubSeq(data, 1, read)
            /\ Len(server'.ingest) = Len(server.ingest) + read
            /\ (srv_call'.ret = "IngestFull") = (read < Len(data))
            /\ (srv_call'.ret = "Ok") = ~(read < Len(data))
            /\ server'.egress = server.egress

C4_Ingest == [][C4_IngestStep]_vars

\* ingest returned IngestFull after copying a proper, non-empty prefix
C4_Witness ==
    /\ srv_call.op = "ingest"
    /\ srv_call.ret = "IngestFull"
    /\ srv_call.read > 0
    /\ srv_call.read < srv_call.arg
    /\ Len(server.ingest) = IngestCapacity

\* ingest into a buffer that was already full
C4_WitnessFull ==
    /\ srv_call.op = "ingest"
    /\ srv_call.ret = "IngestFull"
    /\ srv_call.read = 0

(***************************************************************************)
(* C5 - as claimed: progress returns IngestEmpty iff at entry ingest holds *)
(* fewer than 32 bytes AND egress has room; EgressFull iff it halted with  *)
(* at least 32 bytes in ingest AND egress full; Ok in every other case.    *)
(***************************************************************************)
C5_EgressFullIff ==
    (srv_call'.ret = "EgressFull") =
        (Len(server'.ingest) >= 32 /\ Len(server'.egress) = EgressCapacity)

C5_AsClaimedStep ==
    srv_call'.op = "progress" =>
        /\ (srv_call'.ret = "IngestEmpty") =
                (Len(server.ingest) < 32 /\ Len(server.egress) < EgressCapacity)
        /\ C5_EgressFullIff
        /\ srv_call'.ret \in {"IngestEmpty", "EgressFull", "Ok"}

C5_AsClaimed == [][C5_AsClaimedStep]_vars

(***************************************************************************)
(* C5, amended - progress returns IngestEmpty iff at entry ingest holds    *)
(* fewer than 32 bytes, whether or not egress has room; EgressFull iff it  *)
(* halted with at least 32 bytes in ingest AND egress full; Ok otherwise.  *)
(***************************************************************************)
C5_AmendedStep ==
    srv_call'.op = "progress" =>
        /\ (srv_call'.ret = "IngestEmpty") = (Len(server.ingest) < 32)
        /\ C5_EgressFullIff
        /\ srv_call'.ret \in {"IngestEmpty", "EgressFull", "Ok"}

C5_ProgressResult == [][C5_AmendedStep]_vars

\* progress returned IngestEmpty while the egress buffer was full
C5_Witness ==
    /\ srv_call.op = "progress"
    /\ srv_call.ret = "IngestEmpty"
    /\ Len(server.egress) = EgressCapacity
    /\ Len(server.ingest) > 0

(***************************************************************************)
(* C6 - one progress call with n bytes in ingest and e free egress slots   *)
(* consumes k = min(n div 32, e) records: the first 32k bytes leave        *)
(* ingest, the k decoded events are appended to egress in record order,    *)
(* and afterwards ingest holds fewer than 32 bytes or egress is full.      *)
(***************************************************************************)
C6_ProgressStep ==
    srv_call'.op = "progress" =>
        LET n == Len(server.ingest)
            e == EgressCapacity - Len(server.egress)
            k == IF n \div 32 < e THEN n \div 32 ELSE e
        IN  /\ server'.ingest = SubSeq(server.ingest, 32 * k + 1, n)
            /\ server'.egress = server.egress \o
                    [i \in 1..k |-> RefDecode(RefRecord(server.ingest, i))]
            /\ \/ Len(server'.ingest) < 32
               \/ Len(server'.egress) = EgressCapacity

C6_Progress == [][C6_ProgressStep]_vars

\* progress consumed at least one record and stopped on a full egress buffer
\* with a whole record left
C6_Witness ==
    /\ srv_call.op = "progress"
    /\ srv_call.ret = "EgressFull"
    /\ srv_call.read >= 32
    /\ Len(server.ingest) >= 32
    /\ Len(server.egress) = EgressCapacity

(***************************************************************************)
(* C7 - egress(max) removes and returns the first min(max, length) events  *)
(* in FIFO order, leaves the rest in order and the ingest buffer as it     *)
(* was, and returns nothing when egress is empty; ready_events() returns   *)
(* the egress length and changes no state.                                 *)
(***************************************************************************)
C7_EgressStep ==
    /\ srv_call'.op = "egress" =>
            LET m == IF srv_call'.arg < Len(server.egress)
                     THEN srv_call'.arg ELSE Len(server.egress)
            IN  /\ srv_call'.out = SubSeq(server.egress, 1, m)
                /\ server'.egress = SubSeq(server.egress, m + 1, Len(server.egress))
                /\ server'.ingest = server.ingest
                /\ (server.egress = <<>> => srv_call'.out = <<>>)
    /\ srv_call'.op = "ready_events" =>
            /\ srv_call'.read = Len(server.egress)
            /\ server' = server

C7_Egress == [][C7_EgressStep]_vars

\* egress(1) on a buffer of two different events
C7_Witness ==
    /\ srv_call.op = "egress"
    /\ srv_call.arg = 1
    /\ Len(srv_call.out) = 1
    /\ Len(server.egress) = 1
    /\ srv_call.out[1] # server.egress[1]

(***************************************************************************)
(* C8 - prev.diff(cur), for canvases of equal dimensions, contains the     *)
(* entry (x, y, c) iff cur(x, y) = c and c # prev(x, y); each differing    *)
(* cell appears once, the entries are in row-major order, and the diff is  *)
(* empty when prev = cur.                                                  *)
(***************************************************************************)
Cell(c, x, y) == c.data[y * c.width + x + 1]

C8_Diff ==
    cv_call.op = "diff" =>
        LET out == cv_call.out
            w   == canvas.width
        IN  /\ prev_canvas.width = canvas.width
            /\ prev_canvas.height = canvas.height
            /\ \A i \in 1..Len(out) :
                    /\ <<out[i].x, out[i].y>> \in Cells(canvas)
                    /\ out[i].color = Cell(canvas, out[i].x, out[i].y)
                    /\ out[i].color # Cell(prev_canvas, out[i].x, out[i].y)
            /\ \A cell \in Cells(canvas) :
                    Cell(canvas, cell[1], cell[2]) # Cell(prev_canvas, cell[1], cell[2])
                    => Cardinality({i \in 1..Len(out) :
                            out[i].x = cell[1] /\ out[i].y = cell[2]}) = 1
            /\ \A i, j \in 1..Len(out) :
                    i < j => out[i].y * w + out[i].x < out[j].y * w + out[j].x
            /\ (prev_canvas = canvas => out = <<>>)

\* three cells of a 2x2 canvas changed since the clone, one stayed
C8_Witness ==
    /\ cv_call.op = "diff"
    /\ canvas.width = 2
    /\ canvas.height = 2
    /\ Len(cv_call.out) = 3
    /\ cv_call.out[2] = [x |-> 1, y |-> 0, color |-> BLUE]
    /\ cv_call.out[3] = [x |-> 0, y |-> 1, color |-> RED]

\* a diff against a clone taken after the writes is empty
C8_WitnessEmpty ==
    /\ cv_call.op = "diff"
    /\ cv_call.out = <<>>
    /\ writes > 0
    /\ canvas.data # Canvas_new(canvas.width, canvas.height).data

(***************************************************************************)
(* C9 - pixels() yields exactly width * height pixels in row-major order,  *)
(* the pixel at (x, y) carrying the colour of the last successful write    *)
(* to that cell, or white if the cell was never written.                   *)
(***************************************************************************)
C9_Pixels ==
    cv_call.op = "pixels" =>
        LET out == cv_call.out
            w   == canvas.width
        IN  /\ Len(out) = canvas.width * canvas.height
            /\ \A cell \in Cells(canvas) :
                    out[cell[2] * w + cell[1] + 1] =
                        [x |-> cell[1], y |-> cell[2],
                         color |-> IF last_write[cell] = None
                                   THEN [r |-> 255, g |-> 255, b |-> 255]
                                   ELSE last_write[cell][1]]

\* a 2x2 canvas iterated after a cell was overwritten, one cell never written
C9_Witness ==
    /\ cv_call.op = "pixels"
    /\ canvas.width = 2
    /\ canvas.height = 2
    /\ writes = 3
    /\ Len(cv_call.out) = 4
    /\ cv_call.out[1].color = RED
    /\ cv_call.out[3].color = BLUE
    /\ last_write[<<1, 1>>] = None
    /\ last_write[<<1, 0>>] = None

(***************************************************************************)
(* C10 - for in-bounds (x, y), set_pixel(x, y, c) returns Ok, afterwards   *)
(* get_pixel(x, y) = Some(c), and every other cell, the width and the      *)
(* height are unchanged.                                                   *)
(***************************************************************************)
C10_SetPixelStep ==
    (/\ cv_call'.op = "set_pixel"
     /\ cv_call'.x < canvas.width
     /\ cv_call'.y < canvas.height) =>
        /\ cv_call'.ret = "Ok"
        /\ get_pixel(canvas', cv_call'.x, cv_call'.y) = cv_call'.color
        /\ Cell(canvas', cv_call'.x, cv_call'.y) = cv_call'.color[1]
        /\ canvas'.width = canvas.width
        /\ canvas'.height = canvas.height
        /\ Len(canvas'.data) = Len(canvas.data)
        /\ \A cell \in Cells(canvas) :
                cell # <<cv_call'.x, cv_call'.y>> =>
                    Cell(canvas', cell[1], cell[2]) = Cell(canvas, cell[1], cell[2])

C10_SetPixel == [][C10_SetPixelStep]_vars

\* a write to (1, 1) of a canvas that already holds another colour elsewhere
C10_Witness ==
    /\ cv_call.op = "set_pixel"
    /\ cv_call.ret = "Ok"
    /\ cv_call.x = 1
    /\ cv_call.y = 1
    /\ cv_call.color = Some(RED)
    /\ Cell(canvas, 0, 1) = BLUE

(***************************************************************************)
(* C11 - set_pixel with x >= width or y >= height returns an error and     *)
(* changes no cell, get_pixel with such coordinates returns None, and when *)
(* the canvas task handles a PlacePixel event with such coordinates the    *)
(* canvas is unchanged and the task stays in its loop, ready for the next  *)
(* event.                                                                  *)
(***************************************************************************)
OutOfBounds(c, x, y) == x >= c.width \/ y >= c.height

C11_OutOfBoundsStep ==
    (ct_pc = "select" /\ event_channel # <<>> /\ event_channel' = Tail(event_channel))
    => LET e == Head(event_channel)
       IN  OutOfBounds(canvas, e.x, e.y)
           => /\ set_pixel(canvas, e.x, e.y, e.color).ret = "Err"
              /\ set_pixel(canvas, e.x, e.y, e.color).self = canvas
              /\ get_pixel(canvas, e.x, e.y) = None
              /\ canvas' = canvas
              /\ ct_last' = Some([event |-> e, ret |-> "Err"])
              /\ ct_pc' = "select"

C11_OutOfBounds == [][C11_OutOfBoundsStep]_vars

\* the task has just refused an out-of-bounds event on a canvas it had painted
C11_Witness ==
    /\ ct_last = Some([event |-> PlacePixel(ServiceWidth, 0, RED), ret |-> "Err"])
    /\ ct_pc = "select"
    /\ get_pixel(canvas, 0, 0) = Some(RED)

(***************************************************************************)
(* C12 - every CanvasDiff the canvas task puts on the diff channel, on a   *)
(* tick or as the final diff at shutdown, is non-empty.                    *)
(***************************************************************************)
C12_NoEmptyDiffPublished ==
    \A i \in 1..Len(diff_channel) : ~is_empty(diff_channel[i])

(***************************************************************************)
(* The service under the scheduling the runtime gives: a write_frame whose *)
(* socket can take the frame is polled to completion by sent.count().      *)
(***************************************************************************)
SpecServiceFair ==
    /\ SpecService
    /\ \A index \in 1..MaxSubscribers :
            WF_vars(WsHandlerWriteDone(index) /\ UNCHANGED notSvc)

(***************************************************************************)
(* C13 - the writes of one broadcast are in flight together: a subscriber  *)
(* whose socket takes the frame receives the diff being broadcast even if  *)
(* the write to another subscriber of that broadcast never completes.      *)
(***************************************************************************)
HealthOf(id) ==
    LET at == {i \in 1..Len(clients) : clients[i].id = id}
    IN  IF at = {} THEN "gone" ELSE clients[CHOOSE i \in at : TRUE].health

C13_ConcurrentWrites ==
    \A id \in 1..MaxSubscribers :
        (hub_pc = "broadcast" /\ id \in pending /\ HealthOf(id) = "ok") ~> (id \in got)

\* one subscriber has its frame while the write to a stalled one is still in flight
C13_Witness ==
    /\ hub_pc = "broadcast"
    /\ \E a \in got, b \in pending : HealthOf(a) = "ok" /\ HealthOf(b) = "stalled" /\ b < a

(***************************************************************************)
(* C14 - the canvas task is never stuck because a subscriber does not      *)
(* complete a write: there is no reachable state in which the task waits   *)
(* in diff_sender.send on a full diff channel, with an event waiting in    *)
(* the event channel, while the hub waits for writes that never complete.  *)
(***************************************************************************)
HubWaitsOnStalled ==
    /\ hub_pc = "broadcast"
    /\ pending # {}
    /\ \A id \in pending : HealthOf(id) = "stalled"

CanvasTaskBlockedOnSend ==
    /\ ct_pc = "send"
    /\ diff_receiver_open
    /\ Len(diff_channel) = DIFF_BUFFER_SIZE

C14_WriterNeverBlocked ==
    ~(CanvasTaskBlockedOnSend /\ HubWaitsOnStalled /\ event_channel # <<>>)

(***************************************************************************)
(* C15 - a subscriber whose write of a diff frame failed with a write      *)
(* error is evicted by the hub: once that broadcast is over it is no       *)
(* longer in the subscriber list, and no later broadcast writes to it.     *)
(***************************************************************************)
C15_FailedWriterEvicted ==
    \A id \in failed :
        /\ id \notin pending
        /\ hub_pc = "select" => id \notin ClientIds

(***************************************************************************)
(* C16 - when a header bounds check fails against the end of the packet    *)
(* (Ethernet, IPv6 or ICMPv6 header) the classifier returns abort for that *)
(* packet, never pass-through or drop.                                     *)
(***************************************************************************)
\* the frame ends inside the first header the classifier has to read
BoundsCheckFails(f) ==
    \/ f.len < EthHdr_LEN
    \/ /\ f.ether_type = "Ipv6"
       /\ f.len < EthHdr_LEN + Ipv6Hdr_LEN
    \/ /\ f.ether_type = "Ipv6"
       /\ f.next_hdr = "Ipv6Icmp"
       /\ f.len < EthHdr_LEN + Ipv6Hdr_LEN + IcmpV6Hdr_LEN

C16_BoundsFailAborts ==
    (xdp_call.op = "ipcanvas_ping" /\ BoundsCheckFails(xdp_call.frame))
    => xdp_call.verdict = "XDP_ABORTED"

(***************************************************************************)
(* C17 - a record is put on the ring buffer only by a run of the           *)
(* classifier on a frame that is IPv6, has next header ICMPv6, has ICMPv6  *)
(* type 128 and whose destination matches the prefix held in the PREFIX    *)
(* cell; the record is that frame's source and destination address; a run  *)
(* on a frame failing one of the four tests returns pass-through and       *)
(* leaves the ring buffer as it was.                                       *)
(***************************************************************************)
\* the four tests, read off the frame's bytes
PassesTests(f, cell) ==
    /\ f.len >= EthHdr_LEN
    /\ f.ether_type = "Ipv6"
    /\ f.len >= EthHdr_LEN + Ipv6Hdr_LEN
    /\ f.next_hdr = "Ipv6Icmp"
    /\ f.len >= EthHdr_LEN + Ipv6Hdr_LEN + 1
    /\ f.icmp_type = 128
    /\ TopBitsEqual(f.dst_addr, SubSeq(cell, 1, 16), cell[17])

\* the step is a run of ipcanvas_ping
IsClassifierRun ==
    /\ xdp_call'.op = "ipcanvas_ping"
    /\ xdp_call' # xdp_call \/ Len(PING') > Len(PING)

C17_EnqueueStep ==
    /\ Len(PING') > Len(PING)
       => /\ IsClassifierRun
          /\ PassesTests(xdp_call'.frame, PREFIX)
          /\ PING' = Append(PING, [source_address |-> xdp_call'.frame.src_addr,
                                   destination_address |-> xdp_call'.frame.dst_addr])
    /\ (IsClassifierRun /\ ~PassesTests(xdp_call'.frame, PREFIX))
       => /\ xdp_call'.verdict = "XDP_PASS"
          /\ PING' = PING

C17_EnqueueOnlyMatching == [][C17_EnqueueStep]_vars

\* the newest record is the one of the Echo Request just classified against
\* the loader's prefix
C17_Witness ==
    /\ loader_pc = "running"
    /\ xdp_call.op = "ipcanvas_ping"
    /\ xdp_call.verdict = "XDP_PASS"
    /\ xdp_call.cell = prefix_into_bytes(opt_prefix)
    /\ xdp_call.frame.src_addr # xdp_call.frame.dst_addr
    /\ PING # <<>>
    /\ PING[Len(PING)] = [source_address |-> xdp_call.frame.src_addr,
                          destination_address |-> xdp_call.frame.dst_addr]

\* a run on a frame that fails a test, with records already in the ring buffer
C17_WitnessReject ==
    /\ xdp_call.op = "ipcanvas_ping"
    /\ ~PassesTests(xdp_call.frame, xdp_call.cell)
    /\ xdp_call.verdict = "XDP_PASS"
    /\ PING # <<>>

(***************************************************************************)
(* C18 - for an Echo Request whose destination matches, a failed enqueue   *)
(* (ring buffer full) gives verdict drop with no record added, a           *)
(* successful one gives verdict pass-through with the record added; the    *)
(* run returns in either case.                                             *)
(***************************************************************************)
MatchingEchoRequest(f, cell) ==
    /\ PassesTests(f, cell)
    /\ f.len >= EthHdr_LEN + Ipv6Hdr_LEN + IcmpV6Hdr_LEN

C18_OutputStep ==
    (IsClassifierRun /\ MatchingEchoRequest(xdp_call'.frame, PREFIX))
    => IF Len(PING) >= RingRecords
       THEN xdp_call'.verdict = "XDP_DROP" /\ PING' = PING
       ELSE /\ xdp_call'.verdict = "XDP_PASS"
            /\ Len(PING') = Len(PING) + 1

C18_FullQueueDrops == [][C18_OutputStep]_vars

\* a matching Echo Request met a full ring buffer
C18_Witness ==
    /\ xdp_call.op = "ipcanvas_ping"
    /\ MatchingEchoRequest(xdp_call.frame, xdp_call.cell)
    /\ ~xdp_call.room
    /\ xdp_call.verdict = "XDP_DROP"
    /\ Len(PING) = RingRecords

(***************************************************************************)
(* C19 - the loader writes the configured prefix into the PREFIX cell      *)
(* before the classifier is attached and never afterwards, so no packet is *)
(* classified against the zero-initialised cell.                           *)
(***************************************************************************)
C19_PrefixSetBeforeAttach ==
    /\ Attached => prefix_sets = 1 /\ PREFIX = prefix_into_bytes(opt_prefix)
    /\ xdp_call.op = "ipcanvas_ping" => xdp_call.cell # ZeroCell

(***************************************************************************)
(* C20 - within one connection the events sent on the event channel are,   *)
(* in order, the decodings of the first records of the connection's byte   *)
(* stream, and the channel hands them on in that order, whatever the reads *)
(* returned and however often ingest() met a full buffer or progress() a   *)
(* full egress buffer.                                                     *)
(***************************************************************************)
C20_EventsInArrivalOrder ==
    pump_pc # "idle" =>
        LET all == RefDecodeAll(arrived)
        IN  /\ Len(emitted) <= Len(all)
            /\ emitted = SubSeq(all, 1, Len(emitted))
            /\ Len(event_channel) <= Len(emitted)
            /\ event_channel =
                 SubSeq(emitted, Len(emitted) - Len(event_channel) + 1, Len(emitted))

\* every record of the stream has been sent, after ingest() had met a full
\* buffer and progress() a full egress buffer
C20_Witness ==
    /\ pump_seen = {"IngestFull", "EgressFull"}
    /\ Len(emitted) = MaxRecords + 1
    /\ emitted[1] # emitted[2]
    /\ emitted[2] # emitted[3]

(***************************************************************************)
(* C21 - after the interrupt the supervisor shuts down in order, and the   *)
(* process does not end before the canvas task has published its final     *)
(* diff and returned and the hub has returned.                             *)
(***************************************************************************)
C21_ProcessOutlivesTasks ==
    main_pc = "exited" => (ct_pc = "done" /\ hub_pc = "done")

(***************************************************************************)
(* C22 - once every sender of the event channel is dropped the canvas task *)
(* applies the events still buffered, oldest first, and takes no tick in   *)
(* between; it leaves its loop only with the channel empty; it then sends  *)
(* exactly one final diff, the diff of prev_canvas against the canvas, and *)
(* ends.  It never ends while an event is buffered, and never in another   *)
(* way.  (The events are those the decoder produces: PlacePixel.)          *)
(***************************************************************************)
CanvasTaskActs ==
    \/ ct_pc' # ct_pc
    \/ ct_last' # ct_last
    \/ canvas' # canvas
    \/ event_channel' = Tail(event_channel) /\ event_channel # <<>>

CanvasTaskEnded(pc) == pc \in {"done", "panicked"}

C22_DrainStep ==
    /\ (ct_pc = "select" /\ event_closed /\ event_channel # <<>> /\ CanvasTaskActs)
       => /\ event_channel' = Tail(event_channel)
          /\ ct_pc' = "select"
          /\ diff_channel' = diff_channel
    /\ (ct_pc = "select" /\ ct_pc' = "final")
       => (event_closed /\ event_channel = <<>>)
    /\ (ct_pc = "final" /\ ct_pc' # "final")
       => (ct_pc' = "final_send" /\ ct_diff' = diff(prev_canvas, canvas))
    /\ (event_closed /\ ~CanvasTaskEnded(ct_pc) /\ CanvasTaskEnded(ct_pc'))
       => /\ ct_pc = "final_send"
          /\ event_channel = <<>>
          /\ diff_channel' = Append(diff_channel, diff(prev_canvas, canvas))
          /\ ~diff_sender_open'

C23_UnsupportedStep ==
    (/\ ct_pc = "select"
     /\ event_channel # <<>>
     /\ Head(event_channel).kind # "PlacePixel"
     /\ CanvasTaskActs)
    => /\ canvas' = canvas
       /\ ct_pc' = "select"
       /\ event_channel' = Tail(event_channel)
       /\ diff_sender_open'

C23_UnsupportedIgnored == [][C23_UnsupportedStep]_vars

(***************************************************************************)
(* C24 - the payload of the frame the hub builds for a diff encodes that   *)
(* diff: the same diff always gives the same payload, and two different    *)
(* diffs never give the same payload, so the ordered entries of the diff   *)
(* can be read back from the payload alone.                                *)
(***************************************************************************)
C24_PayloadEncodesDiff ==
    \A a \in frames_sent, b \in frames_sent :
        (a.payload = b.payload) <=> (a.diff = b.diff)

(***************************************************************************)
(* C25 - decoding ignores the source address and destination bytes 0..6,   *)
(* 10, 12 and 14: two records that agree on destination bytes 6..10, 11,   *)
(* 13 and 15 decode to the same event whatever their other bytes are, and  *)
(* every record consumes exactly 32 bytes of ingest.                       *)
(***************************************************************************)
\* the positions of a record the claim lists as ignored: the source address
\* (1..16) and destination bytes 0..6, 10, 12, 14
IgnoredPositions == (1..16) \cup (17..22) \cup {27, 29, 31}

\* the bytes ingest() copied that progress() has consumed
Consumed == SubSeq(accepted, 1, Len(accepted) - Len(server.ingest))

AgreeWhereRead(a, b) == \A i \in (1..32) \ IgnoredPositions : a[i] = b[i]

C25_IgnoredBytes ==
    LET produced == emitted \o server.egress
    IN  /\ Len(Consumed) = 32 * Len(produced)
        /\ \A i \in 1..Len(produced), j \in 1..Len(produced) :
                AgreeWhereRead(RefRecord(Consumed, i), RefRecord(Consumed, j))
                => produced[i] = produced[j]
        /\ \A i \in 1..Len(produced), p \in IgnoredPositions, v \in {0, 255} :
                handle_ping_event(from_bytes([RefRecord(Consumed, i) EXCEPT ![p] = v]))
                    = <<produced[i]>>

C26_Construction ==
    new_ret # None =>
        LET a == new_args
            r == new_ret[1]
            valid == a.ingest_capacity > 32 /\ a.egress_capacity > 0
        IN  /\ (a.debug_assertions /\ ~valid) => r.ret = "panic"
            /\ valid => /\ r.ret = "Ok"
                        /\ r.ingest = [items |-> <<>>, capacity |-> a.ingest_capacity]
                        /\ r.egress = [items |-> <<>>, capacity |-> a.egress_capacity]
            /\ a.op = "default" => /\ r.ret = "Ok"
                                   /\ r.ingest.capacity = 4096
                                   /\ r.egress.capacity = 32

\* new(16, 16) in a debug build has panicked
C26_Witness ==
    /\ new_args.op = "new"
    /\ new_args.ingest_capacity = 16
    /\ new_args.egress_capacity = 16
    /\ new_args.debug_assertions
    /\ new_ret = Some([ret |-> "panic",
                       message |-> "Ingest capacity must be greater than 32 bytes"])

(***************************************************************************)
(* C27 - broadcast writes carry a deadline: when every write still in      *)
(* flight belongs to a subscriber that does not complete it, the hub has a *)
(* next step (the deadline passing, which cancels those writes and evicts  *)
(* their subscribers) and so returns to its select for the next input.     *)
(***************************************************************************)
C27_BroadcastHasDeadline ==
    HubWaitsOnStalled => ENABLED WsHandlerWriteDoneStep

(***************************************************************************)
(* C28 - a tick taken with the change flag set and an empty diff publishes *)
(* nothing and clears the flag, so that later ticks do not compute the     *)
(* diff again until another event has been applied; a tick with a          *)
(* non-empty diff publishes it, replaces prev_canvas by a clone of the     *)
(* canvas and clears the flag.                                             *)
(***************************************************************************)
C28_TickClearsChangeFlag ==
    /\ (ct_pc = "select" /\ ct_last = Some([event |-> Tick, ret |-> "empty"]))
       => ~change_flag
    /\ (ct_pc = "select" /\ ct_last = Some([event |-> Tick, ret |-> "publish"]))
       => ~change_flag

(***************************************************************************)
(* C29 - events take priority over ticks: the canvas task computes a diff  *)
(* on a tick only in a state in which no event is ready in the event       *)
(* channel, so every event of a burst already in the channel is applied    *)
(* before the diff is computed; with an event ready, the next step of the  *)
(* task is to receive it.                                                  *)
(***************************************************************************)
TickTaken ==
    /\ ct_pc = "select"
    /\ \/ ct_pc' = "send"
       \/ ct_last' # ct_last /\ ct_last' = Some([event |-> Tick, ret |-> "empty"])

C29_EventsBeforeTickStep ==
    /\ TickTaken => event_channel = <<>>
    /\ (ct_pc = "select" /\ event_channel # <<>> /\ CanvasTaskActs)
       => /\ event_channel' = Tail(event_channel)
          /\ ct_diff' = ct_diff
          /\ prev_canvas' = prev_canvas

C29_EventsBeforeTick == [][C29_EventsBeforeTickStep]_vars

\* an event is ready while a tick would publish: the canvas is red, the
\* snapshot white, the flag set, and a second event waits in the channel
C29_Witness ==
    /\ ct_pc = "select"
    /\ change_flag
    /\ ct_last = Some([event |-> PlacePixel(0, 0, RED), ret |-> "Ok"])
    /\ ~is_empty(diff(prev_canvas, canvas))
    /\ event_channel = <<PlacePixel(0, 0, WHITE)>>
    /\ ~event_closed

(***************************************************************************)
(* C30 - at every diff the canvas task publishes on a tick, prev_canvas    *)
(* equals the canvas of that moment, and the diff lists each cell that     *)
(* changed since the previous publish exactly once and no other cell;      *)
(* hence an all-white canvas of the same dimensions to which every         *)
(* published diff is applied in order equals the canvas as of the last     *)
(* publish.                                                                *)
(***************************************************************************)
EntriesFor(d, x, y) == {i \in 1..Len(d) : d[i].x = x /\ d[i].y = y}

C30_ReplicaFollowsPublishes ==
    /\ ct_pc \in {"select", "final", "final_send"} => replica = prev_canvas
    /\ ct_pc = "send"
       => /\ prev_canvas = canvas
          /\ apply_diff(replica, ct_diff) = prev_canvas
          /\ \A x \in 0..(canvas.width - 1), y \in 0..(canvas.height - 1) :
                Cardinality(EntriesFor(ct_diff, x, y))
                    = IF get_pixel(replica, x, y) # get_pixel(canvas, x, y) THEN 1 ELSE 0
    /\ ct_pc = "done" => replica = canvas

\* two diffs published on ticks wait in the diff channel, the first with two
\* cells, the second painting the first cell white again; the replica shows
\* both, as prev_canvas does
C30_Witness ==
    /\ ct_pc = "select"
    /\ diff_channel =
         << <<[x |-> 0, y |-> 0, color |-> RED],
              [x |-> ServiceWidth - 1, y |-> ServiceHeight - 1, color |-> BLUE]>>,
            <<[x |-> 0, y |-> 0, color |-> WHITE]>> >>
    /\ replica = prev_canvas
    /\ get_pixel(replica, 0, 0) = Some(WHITE)
    /\ get_pixel(replica, ServiceWidth - 1, ServiceHeight - 1) = Some(BLUE)

(***************************************************************************)
(* C31 - on an inbound frame from subscriber i, a Close frame or a read    *)
(* error removes exactly subscriber i from the hub's list and keeps the    *)
(* others in their order; any other frame leaves the list unchanged; the   *)
(* index used for the removal is a valid index of the list.                *)
(***************************************************************************)
\* the list without the subscriber at `index`, the others in their order
Without(v, index) == SelectSeq(v, LAMBDA c : c.id # v[index].id)

C31_InboundFrameStep ==
    /\ \A index \in 1..MaxSubscribers, what \in {"Close", "Error", "Other"} :
            WsHandlerIncoming(index, what)
            => /\ index \in 1..Len(clients)
               /\ clients' = IF what = "Other" THEN clients ELSE Without(clients, index)
    /\ (hub_pc = "select" /\ hub_pc' = "select" /\ Len(clients') < Len(clients))
       => \E index \in 1..Len(clients) : clients' = Without(clients, index)

C31_InboundFrame == [][C31_InboundFrameStep]_vars

\* both subscribers were admitted and the first one was removed: the second
\* is now at the front
C31_Witness ==
    /\ hub_pc = "select"
    /\ next_id = 3
    /\ Len(clients) = 1
    /\ clients[1].id = 2

(***************************************************************************)
(* C32 - after the new-client channel has been closed the hub still serves *)
(* its subscribers: a diff is still broadcast to them, and a Close frame   *)
(* or a read error of a subscriber is still handled by evicting it.  As a  *)
(* state property: with the channel closed, the hub at its select with a   *)
(* subscriber in the list and no diff to take can handle a frame of a      *)
(* subscriber, and with a diff waiting it can start the broadcast.         *)
(***************************************************************************)
C32_ClosedChannelStillServes ==
    (newclient_closed /\ hub_pc = "select" /\ clients # <<>>)
    => /\ diff_channel # <<>> => ENABLED WsHandlerCanvasDiffStep
       /\ (diff_channel = <<>> /\ diff_sender_open) => ENABLED WsHandlerIncomingStep

(***************************************************************************)
(* C33 - the byte pump enters the blocking read of the socket only after   *)
(* the progress call of the same iteration returned IngestEmpty (the       *)
(* ingest buffer holds less than one record) and with the local read       *)
(* buffer empty; whenever it is about to read after IngestEmpty, and       *)
(* whenever it is blocked, the egress buffer of the PingServer is empty.   *)
(***************************************************************************)
C33_BlockingReadState ==
    /\ pump_pc = "block_read"
       => /\ should_block_read
          /\ read_buf = <<>>
    /\ (pump_pc \in {"read", "block_read"} /\ should_block_read)
       => /\ Len(server.ingest) < PING_EVENT_SIZE
          /\ server.egress = <<>>

C33_EntersBlockingReadStep ==
    (pump_pc # "block_read" /\ pump_pc' = "block_read")
    => /\ pump_pc = "read"
       /\ progress(server).ret = "IngestEmpty"
       /\ read_buf = <<>> /\ read_buf' = <<>>
       /\ ready_events(server') = 0

C33_BlockingRead == []C33_BlockingReadState /\ [][C33_EntersBlockingReadStep]_vars

\* the pump blocks between two records: events were delivered, part of the
\* next record waits in ingest
C33_Witness ==
    /\ pump_pc = "block_read"
    /\ emitted # <<>>
    /\ server.ingest # <<>>
    /\ "EgressFull" \in pump_seen

(***************************************************************************)
(* C34 - in the byte pump the bytes appended to the ingest buffer are      *)
(* exactly the bytes read from the socket, in order and each once: the     *)
(* bytes ingest() has taken followed by the bytes held in read_buf are the *)
(* bytes the reads have returned; on IngestFull{read} the tail             *)
(* read_buf[read..read_len] becomes the local buffer and read_len is       *)
(* reduced by read; the socket is read only when the local buffer is       *)
(* empty, so the tail goes to ingest() before a read overwrites it.        *)
(***************************************************************************)
C34_NothingLostOrRepeated ==
    pump_pc # "idle" => accepted \o read_buf = arrived

C34_PumpStep ==
    /\ arrived' # arrived
       => /\ read_buf = <<>>
          /\ arrived' = arrived \o read_buf'
    /\ (pump_pc = "ingest" /\ pump_pc' = "egress" /\ read_buf # <<>>)
       => LET r == ingest(server, read_buf)
          IN  /\ server'.ingest = server.ingest \o SubSeq(read_buf, 1, r.read)
              /\ accepted' = accepted \o SubSeq(read_buf, 1, r.read)
              /\ read_buf' = SubSeq(read_buf, r.read + 1, Len(read_buf))
              /\ Len(read_buf') = Len(read_buf) - r.read
              /\ r.ret = "IngestFull" <=> read_buf' # <<>>
    /\ accepted' # accepted => pump_pc = "ingest"

C34_IngestedIsRead == []C34_NothingLostOrRepeated /\ [][C34_PumpStep]_vars

\* ingest() was full once, the tail was offered again, and every byte of the
\* stream is ingested
C34_Witness ==
    /\ "IngestFull" \in pump_seen
    /\ read_buf = <<>>
    /\ wire = <<>>
    /\ arrived # <<>>
    /\ accepted = arrived

(***************************************************************************)
(* C35 - in every state reachable by ingest, progress, egress and          *)
(* ready_events calls on a PingServer the ingest buffer is no longer than  *)
(* the ingest capacity and the egress buffer no longer than the egress     *)
(* capacity.                                                               *)
(***************************************************************************)
C35_BuffersWithinCapacity ==
    /\ Len(server.ingest) <= server.ingest_capacity
    /\ server.ingest_capacity = IngestCapacity
    /\ Len(server.egress) <= EgressCapacity

\* the egress buffer is at its capacity and the caller has just put the rest
\* of the stream, a whole record, into ingest
C35_Witness ==
    /\ srv_call.op = "ingest"
    /\ srv_call.read > 0
    /\ Len(server.egress) = EgressCapacity
    /\ Len(server.ingest) >= PING_EVENT_SIZE
    /\ wire = <<>>

(***************************************************************************)
(* C36 - the loader accepts a --prefix text only if it is                  *)
(* <address>/<length> with a valid IPv6 address and a length in 0..=128;   *)
(* any other text is rejected before anything is attached or configured:   *)
(* the prefix the loader holds, the 17-byte cell of the PREFIX map and the *)
(* cell every run of the classifier reads have a prefix length of at most  *)
(* 128.                                                                    *)
(***************************************************************************)
C36_PrefixLengthValidated ==
    /\ loader_pc \in {"start", "loaded", "attached", "running", "exited"}
       => opt_prefix.prefix_len \in 0..128
    /\ PREFIX[17] <= 128
    /\ xdp_call.op = "ipcanvas_ping" => xdp_call.cell[17] <= 128
    /\ loader_pc = "failed" => prefix_sets = 0 /\ PREFIX = ZeroCell

(***************************************************************************)
(* C37 - every complete 32-byte record a connection delivers before the    *)
(* end of the stream results in an event sent on the event channel, as     *)
(* long as the channel is open: when the byte pump has returned on a read  *)
(* of 0 bytes, no complete record is left in the egress buffer, in the     *)
(* ingest buffer or in the local read buffer, and the events sent are the  *)
(* decodings of all the complete records that arrived.                     *)
(***************************************************************************)
C37_NothingLeftAtEndOfStream ==
    ("Eof" \in pump_seen /\ event_receiver_open)
    => /\ pump_pc = "done"
       /\ server.egress = <<>>
       /\ Len(server.ingest) < PING_EVENT_SIZE
       /\ Len(read_buf) < PING_EVENT_SIZE
       /\ emitted = RefDecodeAll(arrived)

(***************************************************************************)
(* C38 - in every state of the canvas task in which change_flag is false,  *)
(* prev_canvas equals the canvas cell for cell, so the diff a tick skips   *)
(* with the flag unset would have been empty.                              *)
(***************************************************************************)
C38_CleanMeansEqual ==
    (ct_pc # "idle" /\ ~change_flag)
    => /\ \A x \in 0..(canvas.width - 1), y \in 0..(canvas.height - 1) :
            get_pixel(prev_canvas, x, y) = get_pixel(canvas, x, y)
       /\ prev_canvas = canvas
       /\ is_empty(diff(prev_canvas, canvas))

\* the flag is clear after a publish that carried a painted cell, and the
\* task is back at its select
C38_Witness ==
    /\ ct_pc = "select"
    /\ ~change_flag
    /\ get_pixel(canvas, 0, 0) = Some(RED)
    /\ get_pixel(canvas, ServiceWidth - 1, ServiceHeight - 1) = Some(BLUE)
    /\ ct_last = Some([event |-> Tick, ret |-> "publish"])

\* the canvas task and the hub take the steps they can take; nothing is
\* assumed about the senders of events
SpecCanvasTaskFair ==
    /\ SpecCanvasTask
    /\ WF_vars(CanvasTaskPlacePixelStep)
    /\ WF_vars(CanvasTaskRecvNoneStep)
    /\ WF_vars(CanvasTaskTickStep)
    /\ WF_vars(CanvasTaskSendStep)
    /\ WF_vars(CanvasTaskFinalStep)
    /\ WF_vars(CanvasTaskFinalSendStep)
    /\ WF_vars(WsHandlerCanvasDiffStep)
    /\ WF_vars(WsHandlerDiffClosedStep)

(***************************************************************************)
(* C39 - if an applied event makes the canvas differ from prev_canvas at a *)
(* cell, a diff is eventually published after which prev_canvas agrees     *)
(* with the canvas at that cell (for the final diff: after which the       *)
(* published diffs give the cell its colour), while ticks keep firing and  *)
(* the hub keeps draining the diff channel, even when events keep arriving *)
(* without pause.                                                          *)
(***************************************************************************)
C39_ChangeEventuallyPublished ==
    \A x \in 0..(ServiceWidth - 1), y \in 0..(ServiceHeight - 1) :
        (ct_pc # "idle" /\ get_pixel(canvas, x, y) # get_pixel(prev_canvas, x, y))
        ~> \/ get_pixel(prev_canvas, x, y) = get_pixel(canvas, x, y)
           \/ ct_pc = "done" /\ get_pixel(replica, x, y) = get_pixel(canvas, x, y)

\* a caller that keeps offering what it retains, keeps calling progress and
\* keeps draining egress
IngestRestStep == wire # <<>> /\ Ingest(Len(wire)) /\ UNCHANGED notSrv

EgressDrainStep ==
    /\ \E max_events \in 1..(EgressCapacity + 1) : Egress(max_events)
    /\ UNCHANGED notSrv

SpecServerFair ==
    /\ SpecServer
    /\ WF_vars(IngestRestStep)
    /\ WF_vars(ProgressStep)
    /\ WF_vars(EgressDrainStep)

(***************************************************************************)
(* C40 - with an ingest capacity above 32 the caller's retry loop cannot   *)
(* get stuck: when ingest returns IngestFull the ingest buffer is at its   *)
(* capacity and holds a complete record; a progress call on a full ingest  *)
(* buffer with room in egress removes at least 32 bytes; an ingest call    *)
(* with data on a buffer that is not full takes at least one byte; in no   *)
(* state is ingest full while progress would return IngestEmpty; and every *)
(* byte the caller retains is eventually ingested if the caller keeps      *)
(* retrying and egress keeps being drained.                                *)
(***************************************************************************)
C40_RetryStep ==
    /\ (srv_call'.op = "ingest" /\ srv_call'.ret = "IngestFull")
       => /\ Len(server'.ingest) = server.ingest_capacity
          /\ Len(server'.ingest) >= PING_EVENT_SIZE
    /\ (/\ srv_call'.op = "progress"
        /\ Len(server.ingest) = server.ingest_capacity
        /\ Len(server.egress) < EgressCapacity)
       => /\ Len(server.ingest) - Len(server'.ingest) >= PING_EVENT_SIZE
          /\ ingest(server', <<0>>).read = 1
    /\ (/\ srv_call'.op = "ingest"
        /\ srv_call'.arg > 0
        /\ Len(server.ingest) < server.ingest_capacity)
       => srv_call'.read >= 1

C40_NeverFullAndEmpty ==
    /\ server.ingest_capacity > PING_EVENT_SIZE
    /\ Len(server.ingest) = server.ingest_capacity
       => progress(server).ret # "IngestEmpty"
    /\ (wire # <<>> /\ ingest(server, wire).read = 0)
       => Len(progress(server).self.ingest) < Len(server.ingest)
          \/ Len(server.egress) = EgressCapacity

C40_RetryLoopNotStuck ==
    /\ [][C40_RetryStep]_vars
    /\ []C40_NeverFullAndEmpty
    /\ (wire # <<>>) ~> (wire = <<>>)

\* a stream longer than the ingest capacity has been ingested whole: ingest
\* was full on the way and the retained bytes went in later
C40_Witness ==
    /\ srv_call.op = "ingest"
    /\ srv_call.ret = "Ok"
    /\ srv_call.read > 0
    /\ wire = <<>>
    /\ Len(accepted) > server.ingest_capacity

====
